---- MODULE Spec2Model ----
(***************************************************************************)
(* Model of the batchismo supervisor ("gateway") turn runner and of the    *)
(* per-turn agent process (bat-agent): session/message store, event bus,   *)
(* the NDJSON pipe between the two, the agent's multiplexer, its gateway   *)
(* bridge, and the tool loop with the stuck-agent circuit breaker.         *)
(*                                                                         *)
(* Modelling conventions                                                   *)
(*  - A turn is identified by the order in which its task was spawned, by  *)
(*    send_user_message or, for a sub-agent, by handle_subagent_action.    *)
(*  - A session's kind field is the kind column of its row; the kind of    *)
(*    the SessionMeta read back from a row is always Main.                 *)
(*  - The event bus carries no turn id; event_bus[t] is the subsequence of *)
(*    the bus published by turn t's task, in publication order.            *)
(*  - created_at timestamps are drawn from a logical clock that ticks at   *)
(*    every Message construction.                                          *)
(*  - Every turn has a connection of its own, and ag[t] is the agent       *)
(*    process at the other end of it; which turn spawned the process that  *)
(*    a listener accepts is the matter of the endpoints component.         *)
(*  - A tool result's content is a record [head, tail, hint]: head stands  *)
(*    for the first 120 characters, tail for the rest, and hint is the     *)
(*    count N of an appended "encountered this exact error N times"        *)
(*    paragraph (0 when there is none).                                    *)
(*  - sockets is the set of session ids whose endpoint path                *)
(*    /tmp/bat-agent-{session_id}.sock exists (Unix build).                *)
(*                                                                         *)
(* Components modelled on their own, each with a specification of its own: *)
(*  - the observations table (record_observation), with a wall clock in    *)
(*    units of half an hour that a call reads once;                        *)
(*  - PathPolicy / check_access, on paths as sequences of components, for  *)
(*    the Unix and the Windows build;                                      *)
(*  - the process manager, its per-process waiter task, a foreground and   *)
(*    a background caller; deadlines and entry ages are booleans that an   *)
(*    environment step sets;                                               *)
(*  - the human channel: TelegramState, the inbound loop of                *)
(*    start_channels and the AskOrchestrator handlers.  The turn a message *)
(*    starts is recorded in desk.started and not run.                      *)
(*  - the endpoints of overlapping turns: socket paths, listeners,         *)
(*    backlogs and the agent processes that connect by path;               *)
(*  - a tool registry built from a session kind and a list of disabled     *)
(*    tools, and one call executed against it;                             *)
(*  - MEMORY.md and its .bak as sequences of lines, written by the         *)
(*    reflection passes of completed turns and by an editor.               *)
(* The turn runner's actions leave these components alone and conversely.  *)
(***************************************************************************)
EXTENDS Integers, Sequences, FiniteSets, TLC

\* ---------------------------------------------------------------- bounds
MaxTurns == 2
MaxCalls == 3
MaxFailures == 5
MaxDeltas == 1
MaxSessions == 3
MaxControls == 1
MaxObservations == 4
MaxWall == 5
MaxPolicies == 2
MaxDepth == 3
MaxCleanups == 2
MaxInbound == 3

\* ------------------------------------------------------ program constants
MAX_TOOL_ITERATIONS == 25
ERROR_REPEAT_THRESHOLD == 3
\* chrono::Duration::hours(1), in units of half an hour
ObservationWindow == 2

VARIABLES
    cfg,                 \* environment profile of the run (never changes)
    active_session_key,  \* Gateway.active_session_key
    sessions,            \* sessions table: set of rows
    next_id,             \* source of fresh session ids
    messages,            \* messages table, in insertion (rowid) order
    clock,               \* logical wall clock
    event_bus,           \* per turn: events published by the turn's task
    nturns,              \* number of turns started so far
    gw,                  \* per turn: the gateway task running the turn
    a2g,                 \* per turn: pipe, agent -> gateway
    g2a,                 \* per turn: pipe, gateway -> agent
    ends,                \* per turn: which pipe ends are open
    ag,                  \* per turn: agent process, main task (run_agent)
    br,                  \* per turn: agent process, gateway bridge
    lp,                  \* per turn: agent process, turn task (run_turn_streaming)
    sockets,             \* sessions whose socket path /tmp/bat-agent-{id}.sock exists
    observations,        \* observations table, in insertion (rowid) order
    wall,                \* Utc::now() as read by the observation store
    observed,            \* history: the record_observation calls made so far
    policy_check,        \* path policies in force and the last check_access call
    pm,                  \* ProcessManager, its children, its tasks and callers
    desk,                \* TelegramState, the router's log and the askers
    ep,                  \* socket paths, listeners and agent processes of overlapping turns
    reg,                 \* a ToolRegistry built for a session and one call of execute
    mem                  \* MEMORY.md, its .bak, the reflection passes and an editor

\* The state of the components that are modelled on their own: the turn
\* specifications leave it as constructed.
side == <<observations, wall, observed, policy_check, pm, desk, ep, reg, mem>>

\* The state of the turn runner.
turn_state == <<active_session_key, sessions, next_id, messages, clock,
                event_bus, nturns, gw, a2g, g2a, ends, ag, br, lp, sockets>>

vars == <<cfg, active_session_key, sessions, next_id, messages, clock,
          event_bus, nturns, gw, a2g, g2a, ends, ag, br, lp, sockets, side>>


\* ------------------------------------------------------------- utilities
Last(s) == s[Len(s)]

IsPrefix(s, t) == Len(s) <= Len(t) /\ SubSeq(t, 1, Len(s)) = s

\* --------------------------------------------------------- session store
Keys == {"main", "notes"}

NewSession(id, key) ==
    [id |-> id, key |-> key, kind |-> "Main", parent_id |-> 0,
     subagent_status |-> "none", summary |-> "none",
     token_input |-> 0, token_output |-> 0]

\* the key of a sub-agent session, "subagent:" and the start of its id
SubagentKeys == <<"subagent:1", "subagent:2", "subagent:3", "subagent:4",
                  "subagent:5", "subagent:6", "subagent:7", "subagent:8">>

NewSubagentSessionWithoutParent(id, parent_id) ==
    [id |-> id, key |-> SubagentKeys[id], kind |-> "Subagent", parent_id |-> 0,
     subagent_status |-> "running", summary |-> "none",
     token_input |-> 0, token_output |-> 0]

\* Database::create_subagent_session: the row it inserts
NewSubagentSession(id, parent_id) ==
    [id |-> id, key |-> SubagentKeys[id], kind |-> "Subagent", parent_id |-> parent_id,
     subagent_status |-> "running", summary |-> "none",
     token_input |-> 0, token_output |-> 0]

\* Database::get_subagents: the rows of a parent, with the status it reports
get_subagents(store, parent_id) ==
    {[session_id |-> s.id, session_key |-> s.key,
      status |-> IF s.subagent_status \in {"completed", "failed", "cancelled"}
                    THEN s.subagent_status ELSE "running"] :
        s \in {r \in store : r.parent_id = parent_id}}

get_session_by_key(key) == {s \in sessions : s.key = key}

get_session(id) == CHOOSE s \in sessions : s.id = id

\* Database::update_token_usage
update_token_usage(store, id, inp, out) ==
    {IF s.id = id
        THEN [s EXCEPT !.token_input = @ + inp, !.token_output = @ + out]
        ELSE s : s \in store}

\* Database::update_subagent_status
update_subagent_status(store, id, status, summary) ==
    {IF s.id = id
        THEN [s EXCEPT !.subagent_status = status, !.summary = summary]
        ELSE s : s \in store}

\* Message::user / Message::assistant: a message, stamped with the clock
NewMessage(sid, role, turn, content, calls, results, tin, tout) ==
    [session_id |-> sid, role |-> role, turn |-> turn, content |-> content,
     tool_calls |-> calls, tool_results |-> results,
     token_input |-> tin, token_output |-> tout, created_at |-> clock]

\* Database::get_history: the session's rows ORDER BY created_at ASC
get_history(sid) ==
    SortSeq(SelectSeq(messages, LAMBDA m : m.session_id = sid),
            LAMBDA a, b : a.created_at < b.created_at)


\* -------------------------------------------------------------- event bus
\* EventBus::send, for an event published by turn t's task
Publish(bus, t, ev) == [bus EXCEPT ![t] = Append(@, ev)]

TextDelta == [type |-> "TextDelta"]
ErrorEvent(m) == [type |-> "Error", message |-> m]

\* ------------------------------------------------------- per-turn records
\* The post-turn reflection of a task that has not called maybe_remember.
NoReflection ==
    [ran |-> FALSE, user_message |-> 0, assistant_response |-> [turn |-> 0, content |-> ""]]

IdleGw == [pc |-> "idle", session_id |-> 0, history |-> <<>>,
           origin |-> "ui", result |-> "none", served |-> <<>>,
           pending |-> [type |-> "none"], control |-> <<>>,
           reflection |-> NoReflection]

NoAgent == [pc |-> "none", session_id |-> 0, history |-> <<>>,
            session_kind |-> "none", disabled_tools |-> {}, fwd |-> 0,
            exit_code |-> -1]

NoBridge == [counter |-> 0, queue |-> <<>>, waiters |-> {}, replies |-> {},
             returned |-> <<>>]

NoLoop == [pc |-> "none", iteration |-> 0, first_call |-> TRUE,
           all_tool_calls |-> <<>>, all_tool_results |-> <<>>,
           error_counts |-> <<>>, blocks |-> <<>>, text |-> 0,
           total_input |-> 0, total_output |-> 0, model_calls |-> 0,
           tool_use_stops |-> 0, waiting |-> 0, response_text |-> "", result |-> "none"]

NoEnds == [agent |-> "none", gateway |-> "none"]

\* ------------------------------------------ gateway: send_user_message
\* the keys a caller can name: a name of its own, or the key of a session
\* of the store that get_subagents or SubagentSpawned has shown it
UiKeys == Keys \cup {SubagentKeys[i] : i \in 1..Len(SubagentKeys)}

Nameable(key) == key \in Keys \/ get_session_by_key(key) /= {}

\* Gateway::switch_session: get or create the session, make it active
SwitchSession(key) ==
    /\ Nameable(key)
    /\ key /= active_session_key
    /\ nturns < cfg.turns
    /\ LET found == get_session_by_key(key) IN
         /\ sessions' = IF found = {} THEN sessions \cup {NewSession(next_id, key)}
                                      ELSE sessions
         /\ next_id' = IF found = {} THEN next_id + 1 ELSE next_id
    /\ active_session_key' = key
    /\ UNCHANGED <<side, sockets, cfg, messages, clock, event_bus, nturns, gw, a2g, g2a, ends,
                   ag, br, lp>>

\* Gateway::delete_session and Database::delete_session: "main" is refused,
\* an unknown key is an error; otherwise the session's tool calls, messages
\* and row go, and the active key falls back to "main".  (The number of
\* sessions ever created is capped by MaxSessions.)
DeleteSession(key) ==
    /\ key /= "main"
    /\ next_id <= MaxSessions
    /\ get_session_by_key(key) /= {}
    /\ LET id == (CHOOSE s \in get_session_by_key(key) : TRUE).id IN
         /\ sessions' = {s \in sessions : s.id /= id}
         /\ messages' = SelectSeq(messages, LAMBDA m : m.session_id /= id)
    /\ active_session_key' = IF active_session_key = key THEN "main"
                                                         ELSE active_session_key
    /\ UNCHANGED <<side, sockets, cfg, next_id, clock, event_bus, nturns, gw, a2g, g2a, ends,
                   ag, br, lp>>

\* Gateway::rename_session and Database::rename_session: "main" is refused,
\* an unknown old key or a new key that is taken (key is UNIQUE) is an error
RenameSession(old_key, new_key) ==
    /\ old_key /= "main"
    /\ new_key /= old_key
    /\ get_session_by_key(old_key) /= {}
    /\ get_session_by_key(new_key) = {}
    /\ sessions' = {IF s.key = old_key THEN [s EXCEPT !.key = new_key] ELSE s :
                        s \in sessions}
    /\ active_session_key' = IF active_session_key = old_key THEN new_key
                                                             ELSE active_session_key
    /\ UNCHANGED <<side, sockets, cfg, next_id, messages, clock, event_bus, nturns, gw, a2g,
                   g2a, ends, ag, br, lp>>

\* send_user_message, first part: get_or_create_session and the history
\* snapshot, taken BEFORE the user message is persisted
SendSnapshot ==
    /\ nturns < cfg.turns
    /\ LET t == nturns + 1
           found == get_session_by_key(active_session_key)
           sid == IF found = {} THEN next_id ELSE (CHOOSE s \in found : TRUE).id
       IN /\ sessions' = IF found = {}
                            THEN sessions \cup {NewSession(next_id, active_session_key)}
                            ELSE sessions
          /\ next_id' = IF found = {} THEN next_id + 1 ELSE next_id
          /\ gw' = [gw EXCEPT ![t] = [@ EXCEPT !.pc = "persist",
                                               !.session_id = sid,
                                               !.history = get_history(sid)]]
          /\ nturns' = t
    /\ UNCHANGED <<side, sockets, cfg, active_session_key, messages, clock, event_bus, a2g, g2a,
                   ends, ag, br, lp>>

\* send_user_message, second part: persist the user message, read the
\* configuration (a missing API key refuses the call) and spawn the turn task
SendPersist(t) ==
    /\ gw[t].pc = "persist"
    /\ messages' = Append(messages,
                     NewMessage(gw[t].session_id, "User", t, "user", <<>>, <<>>, -1, -1))
    /\ clock' = clock + 1
    /\ \E api_key \in BOOLEAN :
         gw' = [gw EXCEPT ![t].pc = IF api_key THEN "task" ELSE "refused"]
    /\ UNCHANGED <<side, sockets, cfg, active_session_key, sessions, next_id, event_bus, nturns,
                   a2g, g2a, ends, ag, br, lp>>

\* ------------------------------------- gateway: what the caller does with
\* the Result of run_agent_turn (UI task, messaging bridge task, sub-agent task)
BusAfterReturn(bus, t, res) ==
    IF gw[t].origin = "ui" /\ res = "err"
        THEN Publish(bus, t, ErrorEvent("Agent error"))
        ELSE bus

StoreAfterReturn(store, t, res) ==
    IF gw[t].origin = "subagent"
        THEN update_subagent_status(store, gw[t].session_id,
                 IF res = "ok" THEN "completed" ELSE "failed",
                 IF res = "ok" THEN "Task completed successfully." ELSE "error")
        ELSE store

\* The last Assistant message of a history, as get_history orders it.
LastAssistant(history) ==
    Last(SelectSeq(history, LAMBDA m : m.role = "Assistant"))

\* The UI task after run_agent_turn has returned: for Ok and a session kind
\* of "main" it reads the history again and calls maybe_remember with the
\* user message of the turn and the content of the last Assistant message;
\* an error of maybe_remember is logged.  (The session kind of a turn that
\* send_user_message starts is "main".)
ReflectionAfterReturn(t, res) ==
    LET history == get_history(gw[t].session_id)
    IN IF /\ res = "ok"
          /\ gw[t].origin = "ui"
          /\ \E i \in 1..Len(history) : history[i].role = "Assistant"
       THEN [ran |-> TRUE,
             user_message |-> t,
             assistant_response |-> [turn |-> LastAssistant(history).turn,
                                     content |-> LastAssistant(history).content]]
       ELSE NoReflection

\* --------------------------------------------- gateway: run_agent_turn
\* platform::create_server of the Unix build, for the socket path of the
\* session: a file of that name is removed, then the listener is bound, which
\* makes the file anew.  Nothing else removes the file.
AfterCreateServer(paths, session_id, bound) ==
    IF bound THEN paths \cup {session_id} ELSE paths \ {session_id}

\* The spawned task: the "thinking started" TextDelta, then run_agent_turn
\* steps 1-2: create the pipe server and spawn the agent process
GwStartTask(t) ==
    /\ gw[t].pc = "task"
    /\ \E outcome \in {"ok", "pipe_failed", "spawn_failed"} :
         LET bus1 == IF gw[t].origin = "ui" THEN Publish(event_bus, t, TextDelta)
                                            ELSE event_bus IN
         /\ sockets' = AfterCreateServer(sockets, gw[t].session_id,
                                          outcome /= "pipe_failed")
         /\ IF outcome = "ok"
            THEN /\ gw' = [gw EXCEPT ![t].pc = "accept"]
                 /\ ends' = [ends EXCEPT ![t].gateway = "listening"]
                 /\ ag' = [ag EXCEPT ![t].pc = "connect"]
                 /\ event_bus' = bus1
                 /\ UNCHANGED sessions
            ELSE /\ gw' = [gw EXCEPT ![t].pc = "done", ![t].result = "err"]
                 /\ event_bus' = BusAfterReturn(bus1, t, "err")
                 /\ sessions' = StoreAfterReturn(sessions, t, "err")
                 /\ UNCHANGED <<ends, ag>>
    /\ UNCHANGED <<side, cfg, active_session_key, next_id, messages, clock, nturns,
                   a2g, g2a, br, lp>>

InitMsg(t) == [type |-> "Init", session_id |-> gw[t].session_id,
               history |-> gw[t].history,
               disabled_tools |-> IF gw[t].origin = "subagent" THEN {"session_spawn"}
                                                                ELSE {},
               session_kind |-> IF gw[t].origin = "subagent" THEN "subagent" ELSE "main"]

UserMessageMsg(t) == [type |-> "UserMessage", content |-> t]

\* run_agent_turn steps 3-5: accept the agent's connection, send Init and
\* UserMessage; a send to an agent that is gone fails the turn
GwAccept(t) ==
    /\ gw[t].pc = "accept"
    /\ ends[t].agent /= "none"
    /\ IF ends[t].agent = "open"
       THEN /\ g2a' = [g2a EXCEPT ![t] = <<InitMsg(t), UserMessageMsg(t)>>]
            /\ gw' = [gw EXCEPT ![t].pc = "loop"]
            /\ ends' = [ends EXCEPT ![t].gateway = "open"]
            /\ UNCHANGED <<event_bus, sessions>>
       ELSE /\ gw' = [gw EXCEPT ![t].pc = "done", ![t].result = "err"]
            /\ ends' = [ends EXCEPT ![t].gateway = "closed"]
            /\ event_bus' = BusAfterReturn(event_bus, t, "err")
            /\ sessions' = StoreAfterReturn(sessions, t, "err")
            /\ UNCHANGED g2a
    /\ UNCHANGED <<side, sockets, cfg, active_session_key, next_id, messages, clock, nturns,
                   a2g, ag, br, lp>>

CancelMsg == [type |-> "Cancel"]

\* A supervisor that withdraws the turn once the agent has connected: Init,
\* then Cancel in the place of UserMessage.
PeerCancels(t) ==
    /\ gw[t].pc = "accept"
    /\ ends[t].agent = "open"
    /\ g2a' = [g2a EXCEPT ![t] = <<InitMsg(t), CancelMsg>>]
    /\ gw' = [gw EXCEPT ![t].pc = "loop"]
    /\ ends' = [ends EXCEPT ![t].gateway = "open"]
    /\ UNCHANGED <<side, sockets, cfg, active_session_key, sessions, next_id, messages, clock,
                   event_bus, nturns, a2g, ag, br, lp>>

\* The supervisor process ends while the event loop of the turn runs: its
\* end of the pipe closes and its task takes no further step.
PeerCloses(t) ==
    /\ gw[t].pc \in {"loop", "respond"}
    /\ ag[t].pc = "await_response"
    /\ gw' = [gw EXCEPT ![t].pc = "gone"]
    /\ ends' = [ends EXCEPT ![t].gateway = "closed"]
    /\ UNCHANGED <<side, sockets, cfg, active_session_key, sessions, next_id, messages, clock,
                   event_bus, nturns, a2g, g2a, ag, br, lp>>

\* A supervisor that sends Cancel while the agent waits for a
\* ProcessResponse.
PeerInterrupts(t) ==
    /\ gw[t].pc \in {"loop", "respond"}
    /\ ag[t].pc = "await_response"
    /\ CancelMsg \notin {g2a[t][i] : i \in 1..Len(g2a[t])}
    /\ g2a' = [g2a EXCEPT ![t] = Append(@, CancelMsg)]
    /\ UNCHANGED <<side, sockets, cfg, active_session_key, sessions, next_id, messages, clock,
                   event_bus, nturns, gw, a2g, ends, ag, br, lp>>

is_terminal_only_error(ev) == ev.type = "Error"

\* matches!(event, TurnComplete | Error)
is_terminal(ev) == ev.type \in {"TurnComplete", "Error"}

\* handle_subagent_action / handle_process_request: the ProcessResult for an
\* action (the outcome of the store or of the process manager is an input)
HandlerResults(action) ==
    {[kind |-> IF action = "ListSubagents" THEN "SubagentList" ELSE "Output"]}
        \cup {[kind |-> "Error", message |-> m] : m \in cfg.errors}

\* the task handle_subagent_action spawns for a new sub-agent: run_agent_turn
\* on the child session with an empty history
SubagentTask(sub_id) ==
    [IdleGw EXCEPT !.pc = "task", !.session_id = sub_id, !.origin = "subagent"]

\* handle_subagent_action: the ProcessResult of an action of the turn t and
\* what the handler leaves behind.  SpawnSubagent creates the child session
\* and spawns its task before it returns (a task that is followed takes a
\* turn slot, and their number is capped by cfg.turns); a store error answers
\* Error and leaves nothing behind.
handle_subagent_action(t, action) ==
    IF action = "SpawnSubagent"
    THEN {[result |-> [kind |-> "SubagentSpawned", session_id |-> next_id],
           sessions |-> sessions \cup {NewSubagentSession(next_id, gw[t].session_id)},
           next_id |-> next_id + 1,
           nturns |-> IF cfg.follow THEN nturns + 1 ELSE nturns,
           gw |-> IF cfg.follow THEN [gw EXCEPT ![nturns + 1] = SubagentTask(next_id)]
                                ELSE gw] :
              ok \in IF cfg.follow => nturns < cfg.turns THEN {TRUE} ELSE {}}
         \cup {[result |-> [kind |-> "Error", message |-> m], sessions |-> sessions,
                next_id |-> next_id, nturns |-> nturns, gw |-> gw] : m \in cfg.errors}
    ELSE {[result |-> r, sessions |-> sessions, next_id |-> next_id,
           nturns |-> nturns, gw |-> gw] : r \in HandlerResults(action)}

ProcessResponse(request_id, result) ==
    [type |-> "ProcessResponse", request_id |-> request_id, result |-> result]

ResponseIdOfPrevious(ev) == ev.request_id - 1

\* the id the supervisor answers a ProcessRequest with
ResponseId(ev) == ev.request_id

\* the messages table after a TurnComplete
PersistTurnComplete(msgs, ev) == Append(msgs, ev.message)

CountTurnCompleteTwice(store, sid, ev) ==
    update_token_usage(
        update_token_usage(store, sid, ev.message.token_input, ev.message.token_output),
        sid, ev.message.token_input, ev.message.token_output)

\* the sessions table after a TurnComplete of a turn on session sid
CountTurnComplete(store, sid, ev) ==
    IF ev.message.token_input /= -1 /\ ev.message.token_output /= -1
        THEN update_token_usage(store, sid, ev.message.token_input,
                                ev.message.token_output)
        ELSE store

\* run_agent_turn step 6, Some(event): one iteration of the event loop
GwRecv(t) ==
    /\ gw[t].pc = "loop"
    /\ a2g[t] /= <<>>
    /\ LET ev == Head(a2g[t]) IN
       /\ a2g' = [a2g EXCEPT ![t] = Tail(@)]
       /\ IF ev.type = "ProcessRequest"
          THEN /\ \E out \in handle_subagent_action(t, ev.action) :
                    /\ sessions' = out.sessions
                    /\ next_id' = out.next_id
                    /\ nturns' = out.nturns
                    /\ gw' = [out.gw EXCEPT
                                 ![t].pc = "respond",
                                 ![t].pending = ProcessResponse(ResponseId(ev), out.result),
                                 ![t].served =
                                    Append(@, [dir |-> "request",
                                               request_id |-> ev.request_id,
                                               result |-> [kind |-> "none"]])]
               /\ UNCHANGED <<messages, event_bus, g2a>>
          ELSE /\ messages' = IF ev.type = "TurnComplete"
                                 THEN PersistTurnComplete(messages, ev) ELSE messages
               /\ sessions' = IF ev.type = "TurnComplete"
                                 THEN CountTurnComplete(sessions, gw[t].session_id, ev)
                                 ELSE sessions
               /\ event_bus' = Publish(event_bus, t, ev)
               /\ gw' = [gw EXCEPT ![t].pc = IF is_terminal(ev) THEN "wait_child" ELSE @]
               /\ UNCHANGED <<g2a, next_id, nturns>>
    /\ UNCHANGED <<side, sockets, cfg, active_session_key, clock, ends, ag, br, lp>>

\* the sub-agent control actions of the protocol; the tools that would send
\* them are not registered in bat-agent, so the requests are inputs of the
\* supervisor
ControlActions == {"CancelSubagent", "PauseSubagent", "ResumeSubagent",
                   "InstructSubagent"}

\* handle_subagent_action, the acknowledgement of a control action
ControlAck(action) ==
    [kind |-> CASE action = "CancelSubagent" -> "SubagentCancelled"
                [] action = "PauseSubagent" -> "SubagentPaused"
                [] action = "ResumeSubagent" -> "SubagentResumed"
                [] action = "InstructSubagent" -> "SubagentInstructed"]

\* the status a control action asks for
RequestedStatus(action) ==
    CASE action = "CancelSubagent" -> "cancelled"
      [] action = "PauseSubagent" -> "paused"
      [] OTHER -> "running"

AfterControlRecorded(store, action, session_key) ==
    {IF s.key = session_key /\ action /= "InstructSubagent"
        THEN [s EXCEPT !.subagent_status = RequestedStatus(action)] ELSE s :
            s \in store}

\* the sessions table after handle_subagent_action for a control action:
\* the four branches log and acknowledge, they write nothing
AfterControl(store, action, session_key) == store

\* the control requests handled so far on the turns 1..n
RECURSIVE ControlCount(_)
ControlCount(n) == IF n = 0 THEN 0 ELSE Len(gw[n].control) + ControlCount(n - 1)

\* run_agent_turn step 6 for a ProcessRequest with a control action that
\* names a sub-agent session: the handler runs and the acknowledgement is
\* sent; gw[t].control keeps the action, its target, the status the target
\* had and the answer
ControlRequest(t) ==
    /\ gw[t].pc = "loop"
    /\ ControlCount(MaxTurns) < MaxControls
    /\ \E action \in ControlActions :
       \E target \in {s \in sessions : s.kind = "Subagent"} :
         /\ sessions' = AfterControl(sessions, action, target.key)
         /\ gw' = [gw EXCEPT ![t].control =
                      Append(@, [action |-> action, session_key |-> target.key,
                                 status |-> target.subagent_status,
                                 result |-> ControlAck(action)])]
    /\ UNCHANGED <<side, sockets, cfg, active_session_key, next_id, messages, clock, event_bus,
                   nturns, a2g, g2a, ends, ag, br, lp>>

\* run_agent_turn step 6, ProcessRequest, after the handler returned: send
\* the ProcessResponse (a send on a closed pipe is ignored)
GwRespond(t) ==
    /\ gw[t].pc = "respond"
    /\ g2a' = [g2a EXCEPT ![t] = IF ends[t].agent = "open"
                                    THEN Append(@, gw[t].pending) ELSE @]
    /\ gw' = [gw EXCEPT ![t].pc = "loop",
                        ![t].pending = [type |-> "none"],
                        ![t].served =
                           Append(@, [dir |-> "response",
                                      request_id |-> gw[t].pending.request_id,
                                      result |-> gw[t].pending.result])]
    /\ UNCHANGED <<side, sockets, cfg, active_session_key, sessions, next_id, messages, clock,
                   event_bus, nturns, a2g, ends, ag, br, lp>>

PipeClosedSilently == <<>>

\* what the loop publishes when recv returns None
PipeClosedEvents == <<ErrorEvent("Agent disconnected unexpectedly")>>

\* run_agent_turn step 6, None: the pipe closed without a terminal event
GwPipeClosed(t) ==
    /\ gw[t].pc = "loop"
    /\ a2g[t] = <<>>
    /\ ends[t].agent = "closed"
    /\ event_bus' = [event_bus EXCEPT ![t] = @ \o PipeClosedEvents]
    /\ gw' = [gw EXCEPT ![t].pc = "wait_child"]
    /\ UNCHANGED <<side, sockets, cfg, active_session_key, sessions, next_id, messages, clock,
                   nturns, a2g, g2a, ends, ag, br, lp>>

\* run_agent_turn step 7 and return: wait for the child to exit, drop the
\* pipe, return Ok(()) to the caller
GwWaitChild(t) ==
    /\ gw[t].pc = "wait_child"
    /\ ag[t].exit_code /= -1
    /\ gw' = [gw EXCEPT ![t].pc = "done", ![t].result = "ok",
                         ![t].reflection = ReflectionAfterReturn(t, "ok")]
    /\ ends' = [ends EXCEPT ![t].gateway = "closed"]
    /\ event_bus' = BusAfterReturn(event_bus, t, "ok")
    /\ sessions' = StoreAfterReturn(sessions, t, "ok")
    /\ UNCHANGED <<side, sockets, cfg, active_session_key, next_id, messages, clock, nturns,
                   a2g, g2a, ag, br, lp>>


\* ------------------------------------------------ agent: tool registry
OrchestratorTools == {"session_spawn", "session_status", "session_answer"}

WorkerLocalTools == {"fs_read", "fs_write", "fs_list", "web_fetch", "shell_run",
                     "app_open", "system_info", "clipboard", "screenshot"}

WorkerBridgeTools == {"exec_run", "exec_output", "exec_write", "exec_kill",
                      "exec_list", "session_spawn", "session_status",
                      "ask_orchestrator"}

\* ToolRegistry::with_orchestrator_tools / with_default_tools
Registry(session_kind, disabled) ==
    IF session_kind = "main"
        THEN OrchestratorTools \ disabled
        ELSE (WorkerLocalTools \cup WorkerBridgeTools) \ disabled

UsesBridge(name) == name \in (OrchestratorTools \cup WorkerBridgeTools) \ {"session_answer"}

\* the ProcessAction a bridge tool requests
BridgeAction(name) ==
    IF name = "session_status" THEN "ListSubagents"
    ELSE IF name = "session_spawn" THEN "SpawnSubagent"
    ELSE "Start"

Content(head, tail) == [head |-> head, tail |-> tail, hint |-> 0]

OkOutput == [ok |-> TRUE, content |-> Content(<<"out">>, "")]
Failure(head, tail) == [ok |-> FALSE, content |-> Content(head, tail)]

\* ToolExecutor::execute of a bridge tool: the Result<String> it makes of the
\* ProcessResult (session_status prefixes "Error: ", the exec tools do not)
BridgeToolOutput(name, result) ==
    IF name = "session_status"
        THEN IF result.kind = "SubagentList" THEN OkOutput
             ELSE IF result.kind = "Error"
                     THEN Failure(<<"Error: ", result.message.head>>, result.message.tail)
                     ELSE Failure(<<"Unexpected response">>, "")
        ELSE IF name = "session_spawn"
        THEN IF result.kind = "SubagentSpawned" THEN OkOutput
             ELSE IF result.kind = "Error"
                     THEN Failure(<<"Failed to spawn subagent: ", result.message.head>>,
                                  result.message.tail)
                     ELSE Failure(<<"Unexpected response">>, "")
        ELSE IF result.kind = "Error"
                THEN Failure(<<result.message.head>>, result.message.tail)
                ELSE OkOutput

ToolResultNeverError(call, output) ==
    [tool_call_id |-> call.id, content |-> output.content, is_error |-> FALSE]

\* ToolRegistry::execute: a ToolResult for the call from the executor's output
ToolResultOf(call, output) ==
    [tool_call_id |-> call.id, content |-> output.content, is_error |-> ~output.ok]

UnknownTool(name) == Failure(<<"Unknown tool: ", name>>, "")

\* FsRead::execute: the path does not resolve, no read policy allows it, the
\* read fails, or the content is returned.
FsReadOutcomes ==
    {Failure(<<"Cannot resolve path">>, ""),
     Failure(<<"Access denied: ">>, " is not in any allowed read policy"),
     Failure(<<"Failed to read">>, ""),
     OkOutput}

\* --------------------------------------- agent: stuck-agent circuit breaker
\* format!("{}:{}", name, first 120 chars of the content)
Sig(name, content) == <<name, content.head>>

CountOf(counts, sig) == IF sig \in DOMAIN counts THEN counts[sig] ELSE 0

\* error_counts.entry(sig).or_insert(0) += 1
Bump(counts, sig) ==
    [s \in DOMAIN counts \cup {sig} |->
        IF s = sig THEN CountOf(counts, sig) + 1 ELSE counts[s]]

RetainNothing(counts, name) == <<>>

\* error_counts.retain(|k, _| !k.starts_with("<name>:")); tool names hold no ':'
Retain(counts, name) ==
    [s \in {k \in DOMAIN counts : k[1] /= name} |-> counts[s]]

\* the result with the stuck-agent hint appended to its content
WithHint(result, count) ==
    [tool_call_id |-> result.tool_call_id,
     content |-> [result.content EXCEPT !.hint = count],
     is_error |-> TRUE]

\* the circuit breaker trips
Trips(count) == count >= ERROR_REPEAT_THRESHOLD

AfterToolHintWithoutCall(l, call, result) ==
    LET sig == Sig(call.name, result.content)
        counts == IF result.is_error THEN Bump(l.error_counts, sig)
                                     ELSE Retain(l.error_counts, call.name)
        tripped == result.is_error /\ Trips(counts[sig])
    IN [l EXCEPT !.error_counts = counts,
                 !.all_tool_calls = IF tripped THEN @ ELSE Append(@, call),
                 !.all_tool_results =
                    Append(@, IF tripped THEN WithHint(result, counts[sig]) ELSE result),
                 !.blocks = Tail(@)]

\* execute_tools, the body of the loop after registry.execute(call): the turn
\* task's state once the call and its (possibly rewritten) result are recorded
AfterTool(l, call, result) ==
    LET sig == Sig(call.name, result.content)
        counts == IF result.is_error THEN Bump(l.error_counts, sig)
                                     ELSE Retain(l.error_counts, call.name)
        final == IF result.is_error /\ Trips(counts[sig])
                    THEN WithHint(result, counts[sig]) ELSE result
    IN [l EXCEPT !.error_counts = counts,
                 !.all_tool_calls = Append(@, call),
                 !.all_tool_results = Append(@, final),
                 !.blocks = Tail(@)]

\* ------------------------------------------- agent: run_turn_streaming
MaxIterationsText == "[Error: Maximum tool call iterations reached]"

LoopContinuesInclusive(iteration) == iteration < MAX_TOOL_ITERATIONS

\* for iteration in 0..MAX_TOOL_ITERATIONS: is there another iteration
LoopContinues(iteration) == iteration + 1 < MAX_TOOL_ITERATIONS

\* the turn task once the tool-use blocks of a response are all executed:
\* next iteration of the for loop, or the max-iterations result after it
EndOfIteration(l) ==
    IF l.blocks /= <<>> THEN [l EXCEPT !.pc = "tools"]
    ELSE IF LoopContinues(l.iteration)
            THEN [l EXCEPT !.pc = "llm", !.iteration = @ + 1]
            ELSE [l EXCEPT !.pc = "returned", !.result = "Ok",
                           !.response_text = MaxIterationsText]

\* the responses the model may give, and the outcomes a local tool may have,
\* at this point of the turn (the environment profile bounds their variety)
Responses(t) ==
    IF ag[t].session_kind = "subagent"
        THEN IF lp[t].all_tool_calls = <<>> THEN cfg.worker ELSE cfg.plain
        ELSE IF Len(lp[t].all_tool_calls) < cfg.calls THEN cfg.rich ELSE cfg.plain

LocalOutcomes(t) ==
    IF Len(lp[t].all_tool_calls) < cfg.calls THEN cfg.outcomes ELSE {OkOutput}

\* tool_uses(content) with the ids the model gave the blocks
Blocks(l, names) ==
    [i \in 1..Len(names) |-> [id |-> Len(l.all_tool_calls) + i, name |-> names[i]]]

\* one iteration of the for loop up to the tool execution: the model call
\* (streaming on the first iteration), the token totals, the end-of-turn return
LlmCall(t) ==
    /\ lp[t].pc = "llm"
    /\ \/ \* client.chat / chat_streaming fails: `?` returns the error
          /\ lp' = [lp EXCEPT ![t].pc = "returned", ![t].result = "Err"]
       \/ \E r \in Responses(t) :
            LET sent == IF lp[t].first_call THEN r.deltas
                        ELSE IF r.deltas > 0 THEN 1 ELSE 0
                l1 == [lp[t] EXCEPT !.first_call = FALSE,
                                    !.text = @ + sent,
                                    !.model_calls = @ + 1,
                                    !.tool_use_stops =
                                       IF r.stop_reason = "tool_use" THEN @ + 1 ELSE @,
                                    !.total_input = @ + 2,
                                    !.total_output = @ + 1,
                                    !.blocks = Blocks(lp[t], r.tools)]
            IN lp' = [lp EXCEPT ![t] =
                        IF r.stop_reason /= "tool_use"
                           THEN [l1 EXCEPT !.pc = "returned", !.result = "Ok",
                                           !.blocks = <<>>,
                                           !.response_text =
                                              IF r.deltas > 0 THEN "text" ELSE ""]
                           ELSE EndOfIteration(l1)]
    /\ UNCHANGED <<side, sockets, cfg, active_session_key, sessions, next_id, messages, clock,
                   event_bus, nturns, gw, a2g, g2a, ends, ag, br>>

\* execute_tools, one block: a tool that runs in the agent process, or a name
\* the registry does not know
ExecTool(t) ==
    /\ lp[t].pc = "tools"
    /\ LET call == Head(lp[t].blocks)
           known == call.name \in Registry(ag[t].session_kind, ag[t].disabled_tools)
       IN /\ ~(known /\ UsesBridge(call.name))
          /\ \E output \in (IF known THEN LocalOutcomes(t) ELSE {UnknownTool(call.name)}) :
               lp' = [lp EXCEPT ![t] =
                        EndOfIteration(AfterTool(lp[t], call, ToolResultOf(call, output)))]
    /\ UNCHANGED <<side, sockets, cfg, active_session_key, sessions, next_id, messages, clock,
                   event_bus, nturns, gw, a2g, g2a, ends, ag, br>>

\* GatewayBridge::request up to the blocking wait: allocate the request id and
\* hand (request_id, action, reply slot) to the main task
BridgeRequest(t) ==
    /\ lp[t].pc = "tools"
    /\ LET call == Head(lp[t].blocks)
           id == br[t].counter + 1
       IN /\ call.name \in Registry(ag[t].session_kind, ag[t].disabled_tools)
          /\ UsesBridge(call.name)
          /\ br' = [br EXCEPT ![t].counter = id,
                              ![t].queue = Append(@, [request_id |-> id,
                                                      action |-> BridgeAction(call.name)])]
          /\ lp' = [lp EXCEPT ![t].pc = "blocked", ![t].waiting = id]
    /\ UNCHANGED <<side, sockets, cfg, active_session_key, sessions, next_id, messages, clock,
                   event_bus, nturns, gw, a2g, g2a, ends, ag>>

\* GatewayBridge::request returns with the reply put in its slot; the tool
\* maps it to its output and execute_tools records the result
BridgeReturn(t) ==
    /\ lp[t].pc = "blocked"
    /\ \E reply \in br[t].replies :
         /\ reply.slot = lp[t].waiting
         /\ LET call == Head(lp[t].blocks)
                output == BridgeToolOutput(call.name, reply.result)
            IN lp' = [lp EXCEPT ![t] =
                        EndOfIteration(AfterTool([lp[t] EXCEPT !.waiting = 0], call,
                                                 ToolResultOf(call, output)))]
         /\ br' = [br EXCEPT ![t].replies = @ \ {reply},
                             ![t].returned = Append(@, [allocated |-> reply.slot,
                                                        response |-> reply.response_id,
                                                        result |-> reply.result])]
    /\ UNCHANGED <<side, sockets, cfg, active_session_key, sessions, next_id, messages, clock,
                   event_bus, nturns, gw, a2g, g2a, ends, ag>>


\* ------------------------------------------------- agent: run_agent
Exited(a, code) == [a EXCEPT !.pc = "exited", !.exit_code = code]

\* GatewayPipe::connect: the retry loop ends connected, or with an error that
\* is not retried (the process exits without ever connecting)
AgConnect(t) ==
    /\ ag[t].pc = "connect"
    /\ \E connected \in BOOLEAN :
         IF connected
         THEN /\ ag' = [ag EXCEPT ![t].pc = "handshake"]
              /\ ends' = [ends EXCEPT ![t].agent = "open"]
         ELSE /\ ag' = [ag EXCEPT ![t] = Exited(@, 1)]
              /\ UNCHANGED ends
    /\ UNCHANGED <<side, sockets, cfg, active_session_key, sessions, next_id, messages, clock,
                   event_bus, nturns, gw, a2g, g2a, br, lp>>

\* run_agent steps 1-4: receive Init, then UserMessage, build the registry
\* and spawn the turn task; a closed pipe or another message ends the process
\* with an error, a Cancel in the place of UserMessage ends it with Ok
AgHandshake(t) ==
    /\ ag[t].pc = "handshake"
    /\ Len(g2a[t]) >= 2 \/ ends[t].gateway = "closed"
    /\ IF Len(g2a[t]) >= 2 /\ g2a[t][1].type = "Init" /\ g2a[t][2].type = "UserMessage"
       THEN /\ ag' = [ag EXCEPT ![t].pc = "mux",
                                ![t].session_id = g2a[t][1].session_id,
                                ![t].history = g2a[t][1].history,
                                ![t].session_kind = g2a[t][1].session_kind,
                                ![t].disabled_tools = g2a[t][1].disabled_tools]
            /\ g2a' = [g2a EXCEPT ![t] = Tail(Tail(@))]
            /\ lp' = [lp EXCEPT ![t] = [NoLoop EXCEPT !.pc = "llm"]]
            /\ UNCHANGED ends
       ELSE /\ ag' = [ag EXCEPT ![t] =
                        Exited(@, IF /\ Len(g2a[t]) >= 2
                                     /\ g2a[t][1].type = "Init"
                                     /\ g2a[t][2].type = "Cancel"
                                  THEN 0 ELSE 1)]
            /\ ends' = [ends EXCEPT ![t].agent = "closed"]
            /\ UNCHANGED <<g2a, lp>>
    /\ UNCHANGED <<side, sockets, cfg, active_session_key, sessions, next_id, messages, clock,
                   event_bus, nturns, gw, a2g, br>>

\* GatewayPipe::send by the agent: the pipe after the write, when it succeeds
CanSend(t) == ends[t].gateway /= "closed"

\* select!, rx.recv() = Some(text): forward a text chunk as TextDelta
AgTextDelta(t) ==
    /\ ag[t].pc = "mux"
    /\ lp[t].text > 0
    /\ lp' = [lp EXCEPT ![t].text = @ - 1]
    /\ IF CanSend(t)
       THEN /\ a2g' = [a2g EXCEPT ![t] = Append(@, TextDelta)]
            /\ UNCHANGED <<ag, ends>>
       ELSE /\ ag' = [ag EXCEPT ![t] = Exited(@, 1)]
            /\ ends' = [ends EXCEPT ![t].agent = "closed"]
            /\ UNCHANGED a2g
    /\ UNCHANGED <<side, sockets, cfg, active_session_key, sessions, next_id, messages, clock,
                   event_bus, nturns, gw, g2a, br>>

ProcessRequest(req) ==
    [type |-> "ProcessRequest", request_id |-> req.request_id, action |-> req.action]

\* select!, bridge_rx.recv(): register the reply slot under the request id
\* and send the ProcessRequest; the main task then waits for the response
AgBridgeRelay(t) ==
    /\ ag[t].pc = "mux"
    /\ br[t].queue /= <<>>
    /\ LET req == Head(br[t].queue) IN
       /\ br' = [br EXCEPT ![t].queue = Tail(@),
                           ![t].waiters = @ \cup {req.request_id}]
       /\ IF CanSend(t)
          THEN /\ a2g' = [a2g EXCEPT ![t] = Append(@, ProcessRequest(req))]
               /\ ag' = [ag EXCEPT ![t].pc = "await_response"]
               /\ UNCHANGED ends
          ELSE /\ ag' = [ag EXCEPT ![t] = Exited(@, 1)]
               /\ ends' = [ends EXCEPT ![t].agent = "closed"]
               /\ UNCHANGED a2g
    /\ UNCHANGED <<side, sockets, cfg, active_session_key, sessions, next_id, messages, clock,
                   event_bus, nturns, gw, g2a, lp>>

\* BridgePending::deliver: the reply goes to the slot registered under the
\* response's request_id, if there is one
Deliver(b, msg) ==
    IF msg.request_id \in b.waiters
        THEN [b EXCEPT !.waiters = @ \ {msg.request_id},
                       !.replies = @ \cup {[slot |-> msg.request_id,
                                            response_id |-> msg.request_id,
                                            result |-> msg.result]}]
        ELSE b

\* the pipe.recv() that follows the ProcessRequest: a ProcessResponse is
\* delivered, any other message is dropped, None delivers nothing
AgBridgeResponse(t) ==
    /\ ag[t].pc = "await_response"
    /\ g2a[t] /= <<>> \/ ends[t].gateway = "closed"
    /\ IF g2a[t] /= <<>>
       THEN /\ g2a' = [g2a EXCEPT ![t] = Tail(@)]
            /\ br' = [br EXCEPT ![t] =
                        IF Head(g2a[t]).type = "ProcessResponse"
                           THEN Deliver(@, Head(g2a[t])) ELSE @]
       ELSE UNCHANGED <<g2a, br>>
    /\ ag' = [ag EXCEPT ![t].pc = "mux"]
    /\ UNCHANGED <<side, sockets, cfg, active_session_key, sessions, next_id, messages, clock,
                   event_bus, nturns, gw, a2g, ends, lp>>

\* select!, rx.recv() = None: the turn task has returned and its text is
\* drained; step 6 joins it, an Err result ends the process with an error
AgTurnDone(t) ==
    /\ ag[t].pc = "mux"
    /\ lp[t].pc = "returned"
    /\ lp[t].text = 0
    /\ IF lp[t].result = "Ok"
       THEN /\ ag' = [ag EXCEPT ![t].pc = "forward", ![t].fwd = 0]
            /\ UNCHANGED ends
       ELSE /\ ag' = [ag EXCEPT ![t] = Exited(@, 1)]
            /\ ends' = [ends EXCEPT ![t].agent = "closed"]
    /\ UNCHANGED <<side, sockets, cfg, active_session_key, sessions, next_id, messages, clock,
                   event_bus, nturns, gw, a2g, g2a, br, lp>>

ToolCallStart(call) == [type |-> "ToolCallStart", tool_call |-> call]
ToolCallResult(result) == [type |-> "ToolCallResult", result |-> result]

\* the i-th tool event the agent forwards after the turn: a ToolCallStart for
\* every call of the result, then a ToolCallResult for every result
ForwardEvent(l, i) ==
    IF i <= Len(l.all_tool_calls)
        THEN ToolCallStart(l.all_tool_calls[i])
        ELSE ToolCallResult(l.all_tool_results[i - Len(l.all_tool_calls)])

ForwardCount(l) == Len(l.all_tool_calls) + Len(l.all_tool_results)

\* run_agent, the two for loops after step 6: one pipe.send
AgForward(t) ==
    /\ ag[t].pc = "forward"
    /\ ag[t].fwd < ForwardCount(lp[t])
    /\ IF CanSend(t)
       THEN /\ a2g' = [a2g EXCEPT ![t] = Append(@, ForwardEvent(lp[t], ag[t].fwd + 1))]
            /\ ag' = [ag EXCEPT ![t].fwd = @ + 1]
            /\ UNCHANGED ends
       ELSE /\ ag' = [ag EXCEPT ![t] = Exited(@, 1)]
            /\ ends' = [ends EXCEPT ![t].agent = "closed"]
            /\ UNCHANGED a2g
    /\ UNCHANGED <<side, sockets, cfg, active_session_key, sessions, next_id, messages, clock,
                   event_bus, nturns, gw, g2a, br, lp>>

\* the assistant message run_agent builds from the TurnResult
AssistantMessage(t) ==
    NewMessage(ag[t].session_id, "Assistant", t, lp[t].response_text,
               lp[t].all_tool_calls, lp[t].all_tool_results,
               lp[t].total_input, lp[t].total_output)

TurnComplete(m) == [type |-> "TurnComplete", message |-> m]

\* run_agent: build the assistant message, send TurnComplete, exit 0
AgTurnComplete(t) ==
    /\ ag[t].pc = "forward"
    /\ ag[t].fwd = ForwardCount(lp[t])
    /\ clock' = clock + 1
    /\ ends' = [ends EXCEPT ![t].agent = "closed"]
    /\ IF CanSend(t)
       THEN /\ a2g' = [a2g EXCEPT ![t] = Append(@, TurnComplete(AssistantMessage(t)))]
            /\ ag' = [ag EXCEPT ![t] = Exited(@, 0)]
       ELSE /\ ag' = [ag EXCEPT ![t] = Exited(@, 1)]
            /\ UNCHANGED a2g
    /\ UNCHANGED <<side, sockets, cfg, active_session_key, sessions, next_id, messages,
                   event_bus, nturns, gw, g2a, br, lp>>

\* ----------------------------------------------------- path policy engine
\* A path is a record [verbatim, comps]: verbatim says that the string starts
\* with the extended-length prefix \\?\, comps are the components that
\* Path::components yields for the rest, "/" standing for the root.
AccessLevels == {"ReadOnly", "ReadWrite", "WriteOnly"}

Platforms == {"unix", "windows"}

PathNames == {"tmp", "Tmp", "f", ".."}

Plain(comps) == [verbatim |-> FALSE, comps |-> comps]

\* Paths of policies in the configuration.
PolicyPaths == {Plain(<<"/", "Tmp">>), Plain(<<"/", "tmp", "f">>)}

PathPolicies ==
    [path : PolicyPaths, access : AccessLevels, recursive : BOOLEAN]

\* Targets handed to check_access: absolute paths of up to MaxDepth
\* components, with or without the extended-length prefix.
RECURSIVE NameSeqs(_)
NameSeqs(n) ==
    IF n = 0 THEN {<<>>}
    ELSE LET shorter == NameSeqs(n - 1)
         IN shorter \cup {Append(q, c) : q \in shorter, c \in PathNames}

Targets ==
    [verbatim : BOOLEAN, comps : {<<"/">> \o q : q \in NameSeqs(MaxDepth - 1)}]

\* str::to_lowercase on a component.
to_lowercase(c) == IF c = "Tmp" THEN "tmp" ELSE c

\* strip_win_prefix: the path without a leading \\?\.
strip_win_prefix(path) == [path EXCEPT !.verbatim = FALSE]

\* normalize: strip the prefix, and lowercase on Windows.
normalize(platform, path) ==
    LET stripped == strip_win_prefix(path)
    IN IF platform = "windows"
       THEN [stripped EXCEPT
               !.comps = [i \in 1..Len(stripped.comps) |->
                            to_lowercase(stripped.comps[i])]]
       ELSE stripped

\* Path::starts_with: base's components are consumed one by one from the
\* front of path's; a verbatim prefix is a component of its own.
RECURSIVE iter_after(_, _)
iter_after(comps, base) ==
    IF base = <<>> THEN TRUE
    ELSE IF comps = <<>> THEN FALSE
    ELSE Head(comps) = Head(base) /\ iter_after(Tail(comps), Tail(base))

starts_with(path, base) ==
    /\ base.verbatim => path.verbatim
    /\ (path.verbatim /\ ~base.verbatim) => base.comps = <<>>
    /\ iter_after(path.comps, base.comps)

\* Path::parent: None for the root, for a bare prefix and for the empty
\* path, otherwise the path without its last component.
parent(path) ==
    IF path.comps = <<>> \/ Last(path.comps) = "/"
    THEN [some |-> FALSE]
    ELSE [some |-> TRUE,
          path |-> [path EXCEPT !.comps = SubSeq(@, 1, Len(@) - 1)]]

\* match (self.access, write) of allows, with every direction permitted.
PermitsAnyDirection(access, write) == TRUE

\* match (self.access, write) of allows.
Permits(access, write) ==
    \/ access = "ReadWrite"
    \/ access = "ReadOnly" /\ ~write
    \/ access = "WriteOnly" /\ write

\* PathPolicy::allows
allows(platform, policy, target, write) ==
    LET t == normalize(platform, target)
        policy_path == normalize(platform, policy.path)
        matches == IF policy.recursive
                   THEN starts_with(t, policy_path)
                   ELSE parent(t) = [some |-> TRUE, path |-> policy_path]
    IN IF ~matches THEN FALSE ELSE Permits(policy.access, write)

\* check_access: policies.iter().any(...)
check_access(platform, policies, target, write) ==
    \E i \in 1..Len(policies) : allows(platform, policies[i], target, write)

Unchecked(platform, policies) ==
    [platform |-> platform, policies |-> policies, called |-> FALSE]

\* The policy lists of a configuration.
RECURSIVE PolicyLists(_)
PolicyLists(n) ==
    IF n = 0 THEN {<<>>}
    ELSE LET shorter == PolicyLists(n - 1)
         IN shorter \cup {Append(q, pl) : q \in shorter, pl \in PathPolicies}

\* A tool asks whether it may read or write target.  check_access keeps no
\* state, so a run follows one call.
CheckAccess(target, write) ==
    /\ ~policy_check.called
    /\ policy_check' =
         [platform |-> policy_check.platform,
          policies |-> policy_check.policies,
          called |-> TRUE, target |-> target, write |-> write,
          result |-> check_access(policy_check.platform,
                                  policy_check.policies, target, write)]
    /\ UNCHANGED <<cfg, turn_state, observations, wall, observed, pm, desk, ep, reg, mem>>

\* ------------------------------------------------------- process manager
\* Session ids of managed processes: gen_id gives run_foreground's process
\* the first and the process started in the background the second.
Sids == {1, 2}

ForegroundSid == 1

BackgroundSid == 2

\* ProcessManager::new, with no child spawned and every caller idle.
\*  processes     the map; an entry is "fresh" or, once its started_at is
\*                more than CLEANUP_AFTER_SECS old, "old"
\*  lock          holder of the mutex of the map
\*  child         the operating system's process behind Child
\*  child_lock    holder of the mutex of ManagedProcess.child
\*  is_running, running_lock, exit_code   the shared cells of an entry
\*  watcher       the task spawn starts to wait for the child
\*  fg, kl, bg    callers of run_foreground, kill and spawn; fg.code is the
\*                exit_code that run_foreground returns with its output
\*  listing       the answer of the last list
NoProcesses ==
    [processes |-> [sid \in Sids |-> "absent"],
     lock |-> "free",
     child |-> [sid \in Sids |-> "none"],
     child_lock |-> [sid \in Sids |-> "free"],
     is_running |-> [sid \in Sids |-> TRUE],
     running_lock |-> [sid \in Sids |-> "free"],
     exit_code |-> [sid \in Sids |-> "none"],
     watcher |-> [sid \in Sids |-> "none"],
     fg |-> [pc |-> "idle", expired |-> FALSE, result |-> "none", code |-> "none"],
     kl |-> [pc |-> "idle", sid |-> 0, result |-> "none"],
     bg |-> "idle",
     listing |-> {},
     cleanups |-> 0]

OutsideProcessManager ==
    <<cfg, turn_state, observations, wall, observed, policy_check, desk, ep, reg,
      mem>>

\* spawn up to the insertion: the child runs, its shared cells are made and
\* the waiter task is spawned.
Spawned(m, sid) ==
    [m EXCEPT !.child[sid] = "alive",
              !.is_running[sid] = TRUE,
              !.exit_code[sid] = "none",
              !.watcher[sid] = "start"]

\* self.processes.lock().await.insert(session_id, proc)
Inserted(m, sid) == [m EXCEPT !.processes[sid] = "fresh"]

\* self.processes.lock().await.remove(&sid)
Removed(m, sid) == [m EXCEPT !.processes[sid] = "absent"]

\* The waiter task: child_ref.lock().await
WatcherLocksChild(sid) ==
    /\ pm.watcher[sid] = "start"
    /\ pm.child_lock[sid] = "free"
    /\ pm' = [pm EXCEPT !.child_lock[sid] = "watcher", !.watcher[sid] = "waiting"]
    /\ UNCHANGED OutsideProcessManager

\* The waiter task: wait().await returns once the child has ended, and the
\* guard of the child is dropped at the end of the statement.
WatcherWaitReturns(sid) ==
    /\ pm.watcher[sid] = "waiting"
    /\ pm.child[sid] \in {"exited", "killed"}
    /\ pm' = [pm EXCEPT !.child_lock[sid] = "free", !.watcher[sid] = "returned"]
    /\ UNCHANGED OutsideProcessManager

\* The waiter task: running.lock().await
WatcherLocksRunning(sid) ==
    /\ pm.watcher[sid] = "returned"
    /\ pm.running_lock[sid] = "free"
    /\ pm' = [pm EXCEPT !.running_lock[sid] = "watcher", !.watcher[sid] = "locked"]
    /\ UNCHANGED OutsideProcessManager

\* The waiter task: *running = false, and the guard is dropped.
WatcherClearsRunning(sid) ==
    /\ pm.watcher[sid] = "locked"
    /\ pm' = [pm EXCEPT !.is_running[sid] = FALSE,
                        !.running_lock[sid] = "free",
                        !.watcher[sid] = "code"]
    /\ UNCHANGED OutsideProcessManager

\* The waiter task: *code.lock().await = s.code(), None for a child that a
\* signal ended.
WatcherStoresCode(sid) ==
    /\ pm.watcher[sid] = "code"
    /\ pm' = [pm EXCEPT !.exit_code[sid] =
                           IF pm.child[sid] = "exited" THEN "code" ELSE "none",
                        !.watcher[sid] = "done"]
    /\ UNCHANGED OutsideProcessManager

\* The command ends by its own means.
ChildExits(sid) ==
    /\ pm.child[sid] = "alive"
    /\ pm' = [pm EXCEPT !.child[sid] = "exited"]
    /\ UNCHANGED OutsideProcessManager

\* The started_at of an entry becomes more than CLEANUP_AFTER_SECS old.
EntryAges(sid) ==
    /\ pm.processes[sid] = "fresh"
    /\ pm' = [pm EXCEPT !.processes[sid] = "old"]
    /\ UNCHANGED OutsideProcessManager

\* Child::kill: the child is signalled and reaped; a child that has ended
\* already stays as it ended.
Signalled(state) == IF state = "alive" THEN "killed" ELSE state

\* spawn called for a background Start, up to the insertion.
BgSpawn ==
    /\ pm.bg = "idle"
    /\ pm' = [Spawned(pm, BackgroundSid) EXCEPT !.bg = "insert"]
    /\ UNCHANGED OutsideProcessManager

\* spawn: the insertion, under the mutex of the map.
BgInsert ==
    /\ pm.bg = "insert"
    /\ pm.lock = "free"
    /\ pm' = [Inserted(pm, BackgroundSid) EXCEPT !.bg = "done"]
    /\ UNCHANGED OutsideProcessManager

\* kill: the mutex of the map is taken and the entry looked up; the guard is
\* kept to the end of the function.
KillLocksMap(sid) ==
    /\ pm.kl.pc = "idle"
    /\ pm.lock = "free"
    /\ pm' = IF pm.processes[sid] = "absent"
             THEN [pm EXCEPT !.kl = [pc |-> "done", sid |-> sid, result |-> "err"]]
             ELSE [pm EXCEPT !.lock = "kl",
                             !.kl = [pc |-> "child", sid |-> sid, result |-> "none"]]
    /\ UNCHANGED OutsideProcessManager

\* kill: proc.child.lock().await, child.kill().await, and the return.
KillChild ==
    /\ pm.kl.pc = "child"
    /\ pm.child_lock[pm.kl.sid] = "free"
    /\ pm' = [pm EXCEPT !.child[pm.kl.sid] = Signalled(@),
                        !.lock = "free",
                        !.kl.pc = "done",
                        !.kl.result = IF pm.child[pm.kl.sid] = "alive"
                                      THEN "ok" ELSE "err"]
    /\ UNCHANGED OutsideProcessManager

\* list: under the mutex of the map, is_running and exit_code of every entry.
List ==
    /\ pm.lock = "free"
    /\ \A sid \in Sids : pm.processes[sid] /= "absent" => pm.running_lock[sid] = "free"
    /\ pm' = [pm EXCEPT !.listing =
                {[session_id |-> sid, is_running |-> pm.is_running[sid],
                  exit_code |-> pm.exit_code[sid]] :
                    sid \in {x \in Sids : pm.processes[x] /= "absent"}}]
    /\ UNCHANGED OutsideProcessManager

\* run_foreground: self.spawn up to the insertion.
FgSpawn ==
    /\ pm.fg.pc = "idle"
    /\ pm' = [Spawned(pm, ForegroundSid) EXCEPT !.fg.pc = "insert"]
    /\ UNCHANGED OutsideProcessManager

\* run_foreground: the insertion of spawn; the deadline is set.
FgInsert ==
    /\ pm.fg.pc = "insert"
    /\ pm.lock = "free"
    /\ pm' = [Inserted(pm, ForegroundSid) EXCEPT !.fg.pc = "poll"]
    /\ UNCHANGED OutsideProcessManager

\* Instant::now() passes the deadline of run_foreground.
DeadlinePasses ==
    /\ pm.fg.pc = "poll"
    /\ ~pm.fg.expired
    /\ pm' = [pm EXCEPT !.fg.expired = TRUE]
    /\ UNCHANGED OutsideProcessManager

\* run_foreground, one round of the loop: get_output, then the removal of a
\* finished process or the deadline test; otherwise it sleeps.
FgPoll ==
    /\ pm.fg.pc = "poll"
    /\ pm.lock = "free"
    /\ pm.processes[ForegroundSid] /= "absent" => pm.running_lock[ForegroundSid] = "free"
    /\ pm' = IF pm.processes[ForegroundSid] = "absent"
             THEN [pm EXCEPT !.fg.pc = "returned", !.fg.result = "no process"]
             ELSE IF ~pm.is_running[ForegroundSid]
             THEN [pm EXCEPT !.fg.pc = "remove", !.fg.result = "output",
                             !.fg.code = pm.exit_code[ForegroundSid]]
             ELSE IF pm.fg.expired
             THEN [pm EXCEPT !.fg.pc = "kill"]
             ELSE pm
    /\ UNCHANGED OutsideProcessManager

\* run_foreground after the deadline: self.kill(&sid) takes the mutex of the
\* map and looks the entry up.
FgKillLocksMap ==
    /\ pm.fg.pc = "kill"
    /\ pm.lock = "free"
    /\ pm' = IF pm.processes[ForegroundSid] = "absent"
             THEN [pm EXCEPT !.fg.pc = "remove", !.fg.result = "timeout"]
             ELSE [pm EXCEPT !.lock = "fg", !.fg.pc = "child"]
    /\ UNCHANGED OutsideProcessManager

\* run_foreground after the deadline: the rest of kill; its result is dropped.
FgKillChild ==
    /\ pm.fg.pc = "child"
    /\ pm.child_lock[ForegroundSid] = "free"
    /\ pm' = [pm EXCEPT !.child[ForegroundSid] = Signalled(@),
                        !.lock = "free",
                        !.fg.pc = "remove",
                        !.fg.result = "timeout"]
    /\ UNCHANGED OutsideProcessManager

\* run_foreground: self.processes.lock().await.remove(&sid) and the return.
FgRemove ==
    /\ pm.fg.pc = "remove"
    /\ pm.lock = "free"
    /\ pm' = [Removed(pm, ForegroundSid) EXCEPT !.fg.pc = "returned"]
    /\ UNCHANGED OutsideProcessManager

\* The filter of cleanup without the test of is_running.
CleanupRemovesByAgeOnly(m, sid) == m.processes[sid] = "old"

\* The filter of cleanup: an entry stays if try_lock on is_running succeeds
\* and reads true; otherwise its age decides.
CleanupRemoves(m, sid) ==
    /\ m.processes[sid] /= "absent"
    /\ ~(m.running_lock[sid] = "free" /\ m.is_running[sid])
    /\ m.processes[sid] = "old"

\* cleanup, under the mutex of the map.
Cleanup ==
    /\ pm.cleanups < MaxCleanups
    /\ pm.lock = "free"
    /\ pm' = [pm EXCEPT !.processes =
                           [sid \in Sids |-> IF CleanupRemoves(pm, sid)
                                             THEN "absent" ELSE pm.processes[sid]],
                        !.cleanups = @ + 1]
    /\ UNCHANGED OutsideProcessManager

\* ------------------------------------- questions to the human channel
\* The sub-agent turns that may ask.
Askers == {1, 2}

\* Texts of inbound messages; "" is a message without text or transcription.
Texts == {"", "yes", "no"}

TimeoutAnswer ==
    "No answer received within the timeout. Please proceed with your best judgment or ask again."

SentAnswer ==
    "Question sent to user via Telegram. Continuing without waiting for a reply."

NoChannelAnswer ==
    "No human channel is currently available. Please proceed with your best judgment, or surface this question in your final response so the user can address it."

\* start_channels: no chat is active and no question is pending.
\*  active_chat_id   0 until the first inbound message
\*  pending          pending_question: 0 for None, or the asker whose sender
\*                   it holds
\*  rx               the receiving end of an asker's oneshot channel
\*  askers           handle_subagent_action of each asker: where it is and
\*                   the OrchestratorAnswer it returned
\*  inbound          the texts of the messages the router has taken
\*  started          those of them that started an agent turn
NoQuestions ==
    [active_chat_id |-> 0,
     pending |-> 0,
     rx |-> [w \in Askers |-> "none"],
     askers |-> [w \in Askers |-> [pc |-> "idle", answer |-> "none"]],
     inbound |-> <<>>,
     started |-> <<>>]

OutsideDesk ==
    <<cfg, turn_state, observations, wall, observed, policy_check, pm, ep, reg,
      mem>>

\* A oneshot receiver after its sender was dropped unsent.
SenderDropped(rx) == IF rx = "empty" THEN "closed" ELSE rx

\* tx.send(text) that loses the value.
SentNowhere(rx, text) == rx

\* tx.send(text): the value reaches a receiver that is still there.
Sent(rx, text) == IF rx = "empty" THEN text ELSE rx

\* The inbound loop of start_channels, one message: the chat becomes the
\* active one; a message without text is skipped; a pending question takes
\* the message as its answer; otherwise the message starts a turn on main.
Inbound(text) ==
    /\ text \in Texts
    /\ Len(desk.inbound) < MaxInbound
    /\ LET d == [desk EXCEPT !.active_chat_id = 1,
                             !.inbound = Append(@, text)]
       IN desk' = IF text = "" THEN d
                  ELSE IF d.pending /= 0
                  THEN [d EXCEPT !.pending = 0,
                                 !.rx[d.pending] = Sent(@, text)]
                  ELSE [d EXCEPT !.started = Append(@, text)]
    /\ UNCHANGED OutsideDesk

\* handle_subagent_action, AskOrchestrator: without an active chat the
\* fallback answer; otherwise the question is sent out and, when blocking,
\* the asker's sender replaces whatever pending_question held.
AskOrchestrator(w, blocking) ==
    /\ desk.askers[w].pc = "idle"
    /\ desk' =
         IF desk.active_chat_id = 0
         THEN [desk EXCEPT !.askers[w] = [pc |-> "returned", answer |-> NoChannelAnswer]]
         ELSE IF ~blocking
         THEN [desk EXCEPT !.askers[w] = [pc |-> "returned", answer |-> SentAnswer]]
         ELSE [desk EXCEPT
                 !.rx = [x \in Askers |->
                           IF x = w THEN "empty"
                           ELSE IF x = desk.pending THEN SenderDropped(desk.rx[x])
                           ELSE desk.rx[x]],
                 !.pending = w,
                 !.askers[w].pc = "waiting"]
    /\ UNCHANGED OutsideDesk

\* timeout(600 s, answer_rx) resolves with the answer, or with the error of
\* a dropped sender.
AnswerArrives(w) ==
    /\ desk.askers[w].pc = "waiting"
    /\ desk.rx[w] /= "empty"
    /\ desk' = [desk EXCEPT
                  !.askers[w] = [pc |-> "returned",
                                 answer |-> IF desk.rx[w] = "closed"
                                            THEN TimeoutAnswer ELSE desk.rx[w]],
                  !.rx[w] = "none"]
    /\ UNCHANGED OutsideDesk

\* timeout(600 s, answer_rx) elapses; the receiver is dropped.
AnswerTimesOut(w) ==
    /\ desk.askers[w].pc = "waiting"
    /\ desk.rx[w] = "empty"
    /\ desk' = [desk EXCEPT
                  !.askers[w] = [pc |-> "returned", answer |-> TimeoutAnswer],
                  !.rx[w] = "none"]
    /\ UNCHANGED OutsideDesk

\* ------------------------------------------------- endpoints of turns
\* Session ids of the turns that use the endpoints.
EpSessions == {1, 2}

\* No turn has started.
\*  path       per session id, the turn whose create_server made the file
\*             /tmp/bat-agent-{session_id}.sock last; 0 when there is none
\*  listener   the UnixListener of a turn
\*  backlog    the connections made to a listener and not yet accepted
\*  turn       run_agent_turn up to the accepted connection; accepted is
\*             the agent process at the other end of its pipe
\*  agent      the process a turn spawned; at is the turn whose listener
\*             its connection reached
NoEndpoints ==
    [path |-> [sid \in EpSessions |-> 0],
     listener |-> [t \in 1..MaxTurns |-> "none"],
     backlog |-> [t \in 1..MaxTurns |-> <<>>],
     turn |-> [t \in 1..MaxTurns |-> [pc |-> "idle", session_id |-> 0, accepted |-> 0]],
     agent |-> [t \in 1..MaxTurns |-> [pc |-> "none", at |-> 0]]]

OutsideEndpoints ==
    <<cfg, turn_state, observations, wall, observed, policy_check, pm, desk, reg,
      mem>>

\* remove_file(&addr) and UnixListener::bind(&addr): the file of the path,
\* whoever made it, is replaced by one that leads to the new listener.
Bound(paths, sid, t) == [paths EXCEPT ![sid] = t]

\* run_agent_turn step 1 of a turn on session sid: platform::create_server.
EpCreateServer(t, sid) ==
    /\ ep.turn[t].pc = "idle"
    /\ ep' = [ep EXCEPT !.path = Bound(@, sid, t),
                        !.listener[t] = "listening",
                        !.turn[t] = [pc |-> "spawn", session_id |-> sid, accepted |-> 0]]
    /\ UNCHANGED OutsideEndpoints

\* run_agent_turn step 2: spawn_agent with the path as --pipe.
EpSpawnAgent(t) ==
    /\ ep.turn[t].pc = "spawn"
    /\ ep' = [ep EXCEPT !.turn[t].pc = "accept", !.agent[t].pc = "connect"]
    /\ UNCHANGED OutsideEndpoints

\* pipe_client::connect of the agent that turn t spawned: UnixStream::connect
\* to the path reaches the listener the file leads to; without a file, or
\* with a listener that is gone, the agent sleeps and tries again.
EpConnect(t) ==
    /\ ep.agent[t].pc = "connect"
    /\ LET u == ep.path[ep.turn[t].session_id] IN
         /\ u /= 0
         /\ ep.listener[u] = "listening"
         /\ ep' = [ep EXCEPT !.backlog[u] = Append(@, t),
                             !.agent[t] = [pc |-> "connected", at |-> u]]
    /\ UNCHANGED OutsideEndpoints

\* run_agent_turn step 3, platform::wait_for_connection: accept takes the
\* first connection; the listener is dropped with the server, which resets
\* the connections it has not accepted.
EpAccept(t) ==
    /\ ep.turn[t].pc = "accept"
    /\ ep.backlog[t] /= <<>>
    /\ ep' = [ep EXCEPT
                !.turn[t].pc = "loop",
                !.turn[t].accepted = Head(ep.backlog[t]),
                !.listener[t] = "dropped",
                !.backlog[t] = <<>>,
                !.agent = [a \in 1..MaxTurns |->
                             IF \E i \in 2..Len(ep.backlog[t]) : ep.backlog[t][i] = a
                             THEN [@[a] EXCEPT !.pc = "reset"] ELSE @[a]]]
    /\ UNCHANGED OutsideEndpoints

\* run_agent_turn steps 4-7: the turn runs with the agent it accepted and
\* returns; the pipe is dropped and that agent has ended.
EpReturn(t) ==
    /\ ep.turn[t].pc = "loop"
    /\ ep' = [ep EXCEPT !.turn[t].pc = "done",
                        !.agent[ep.turn[t].accepted].pc = "exited"]
    /\ UNCHANGED OutsideEndpoints

\* -------------------------------------------- a registry built on its own
\* session_kind of Init: "main", or the kind of another session.
SessionKinds == {"main", "subagent"}

\* Values of disabled_tools.
DisabledSets == SUBSET {"session_spawn", "session_status", "fs_read", "ask_orchestrator"}

\* Names a model may ask for: the tools of the agent and one it does not have.
CallNames == OrchestratorTools \cup WorkerLocalTools \cup WorkerBridgeTools \cup {"no_such_tool"}

\* No registry has been built.
\*  definitions   the names that ToolRegistry::definitions lists
\*  call, result  the ToolCall given to execute and the ToolResult it made
NoRegistry ==
    [built |-> FALSE, session_kind |-> "none", disabled |-> {}, definitions |-> {},
     executed |-> FALSE, call |-> [id |-> 0, name |-> "none"],
     result |-> [tool_call_id |-> 0, content |-> Content(<<>>, ""), is_error |-> FALSE]]

OutsideRegistry ==
    <<cfg, turn_state, observations, wall, observed, policy_check, pm, desk, ep, mem>>

\* run_agent: the registry for the session kind and the disabled tools of Init.
BuildRegistry(session_kind, disabled) ==
    /\ ~reg.built
    /\ reg' = [reg EXCEPT !.built = TRUE,
                          !.session_kind = session_kind,
                          !.disabled = disabled,
                          !.definitions = Registry(session_kind, disabled)]
    /\ UNCHANGED OutsideRegistry

\* ToolRegistry::execute of a call by name: the tool is looked up among the
\* registered ones; one that is not there gives the unknown-tool error.
ExecuteCall(name) ==
    /\ reg.built
    /\ ~reg.executed
    /\ \E output \in (IF name \in Registry(reg.session_kind, reg.disabled)
                      THEN {OkOutput, Failure(<<"failed">>, "")}
                      ELSE {UnknownTool(name)}) :
         reg' = [reg EXCEPT !.executed = TRUE,
                            !.call = [id |-> 1, name |-> name],
                            !.result = ToolResultOf([id |-> 1, name |-> name], output)]
    /\ UNCHANGED OutsideRegistry

\* ----------------------------------------------------- the MEMORY file
\* Reflection passes that may run together: the tasks of as many turns.
Passes == 1..MaxTurns

\* Lines of the file: the heading "# Memory", the line(s) the cheap model
\* wants appended after pass p, and a line added in an editor.
Heading == [line |-> "# Memory", of |-> 0]

Snippet(p) == [line |-> "snippet", of |-> p]

EditedLine == [line |-> "edit", of |-> 0]

\* The workspace without a MEMORY.md.
\*  file, bak   MEMORY.md and MEMORY.md.bak, as sequences of lines
\*  pass        maybe_remember of a task: memory_content is what it read
\*  editor      a user interface that shows the file and saves it
NoMemory ==
    [file |-> <<>>,
     bak |-> <<>>,
     pass |-> [p \in Passes |-> [pc |-> "idle", memory_content |-> <<>>,
                                 appended |-> FALSE]],
     editor |-> [pc |-> "idle", content |-> <<>>]]

OutsideMemory ==
    <<cfg, turn_state, observations, wall, observed, policy_check, pm, desk, ep, reg>>

\* memory::write_memory_file: an existing file is copied to the .bak, then
\* the file is written.
write_memory_file(m, content) ==
    [m EXCEPT !.bak = IF m.file /= <<>> THEN m.file ELSE @,
              !.file = content]

\* maybe_remember up to the request: read_memory_file, or "" without a file.
ReflectReads(p) ==
    /\ mem.pass[p].pc = "idle"
    /\ mem' = [mem EXCEPT !.pass[p].pc = "asked",
                          !.pass[p].memory_content = mem.file]
    /\ UNCHANGED OutsideMemory

\* maybe_remember after the answer: an API error or NOTHING ends the pass; a
\* snippet is appended to the content read before the request and written.
ReflectWrites(p, worth) ==
    /\ mem.pass[p].pc = "asked"
    /\ mem' =
         IF ~worth
         THEN [mem EXCEPT !.pass[p].pc = "done"]
         ELSE [write_memory_file(mem,
                   IF mem.pass[p].memory_content = <<>>
                   THEN <<Heading, Snippet(p)>>
                   ELSE Append(mem.pass[p].memory_content, Snippet(p)))
               EXCEPT !.pass[p].pc = "done", !.pass[p].appended = TRUE]
    /\ UNCHANGED OutsideMemory

\* Gateway::read_memory_file for an editor.
EditorReads ==
    /\ mem.editor.pc = "idle"
    /\ mem' = [mem EXCEPT !.editor = [pc |-> "editing", content |-> mem.file]]
    /\ UNCHANGED OutsideMemory

\* Gateway::write_memory_file with the editor's content and a line added.
EditorWrites ==
    /\ mem.editor.pc = "editing"
    /\ mem' = [write_memory_file(mem, Append(mem.editor.content, EditedLine))
               EXCEPT !.editor.pc = "saved"]
    /\ UNCHANGED OutsideMemory

\* ------------------------------------------------------ environment profiles
\* A profile fixes what the environment of a run offers: the number of turn
\* tasks, the answers of the model to a main turn (rich while fewer than
\* calls tool calls were made, plain afterwards) and to a sub-agent turn
\* (worker, then plain), the outcomes of local tools, the error messages of
\* the store, and whether the tasks of spawned sub-agents are followed.
EndTurn(deltas) == [stop_reason |-> "end_turn", tools |-> <<>>, deltas |-> deltas]
ToolUse(names) == [stop_reason |-> "tool_use", tools |-> names, deltas |-> 0]

\* error messages of the store, [head, tail]: head is the part that falls in
\* the first 120 characters of the tool's content. Two agree on it, one does not
ErrorMessages == {[head |-> "E1", tail |-> "x"], [head |-> "E1", tail |-> "y"],
                  [head |-> "E2", tail |-> ""]}

\* the supervisor with up to MaxTurns turns in flight; the model answers
\* every turn at once, without text and without tools
GatewayProfile ==
    [turns |-> MaxTurns, calls |-> 0, rich |-> {}, plain |-> {EndTurn(0)},
     outcomes |-> {OkOutput}, errors |-> {}, worker |-> {}, follow |-> TRUE]

\* one turn; for its first MaxCalls tool calls the model may ask for any of
\* the tools below, one or two at a time, and the store may fail
TurnProfile ==
    [turns |-> 1, calls |-> MaxCalls,
     rich |-> {EndTurn(d) : d \in 0..MaxDeltas}
                \cup {ToolUse(<<"session_status">>), ToolUse(<<"fs_read">>),
                      ToolUse(<<"session_status", "fs_read">>)},
     plain |-> {EndTurn(0)},
     outcomes |-> {OkOutput}, errors |-> {[head |-> "E1", tail |-> "x"]},
     worker |-> {}, follow |-> TRUE]

\* one turn; the model asks for session_status up to MaxFailures times and
\* the store answers or fails with any of the error messages
BreakerProfile ==
    [turns |-> 1, calls |-> MaxFailures,
     rich |-> {EndTurn(0), ToolUse(<<"session_status">>)},
     plain |-> {EndTurn(0)},
     outcomes |-> {OkOutput}, errors |-> ErrorMessages, worker |-> {}, follow |-> TRUE]

\* one turn of the main session; the model asks for session_status, which the
\* store answers or fails, and for fs_read, which the orchestrator registry
\* does not know, up to MaxFailures times in all
ResetProfile ==
    [turns |-> 1, calls |-> MaxFailures,
     rich |-> {EndTurn(0), ToolUse(<<"session_status">>), ToolUse(<<"fs_read">>)},
     plain |-> {EndTurn(0)},
     outcomes |-> {OkOutput}, errors |-> {[head |-> "E1", tail |-> "x"]},
     worker |-> {}, follow |-> TRUE]

\* a turn that may spawn a sub-agent, and the sub-agent's turn, in which the
\* model may ask for session_spawn as well
SubProfile ==
    [turns |-> MaxTurns, calls |-> 1,
     rich |-> {EndTurn(0), ToolUse(<<"session_spawn">>)},
     plain |-> {EndTurn(0)},
     outcomes |-> {OkOutput}, errors |-> {[head |-> "E1", tail |-> "x"]},
     worker |-> {EndTurn(0), ToolUse(<<"session_spawn">>)}, follow |-> TRUE]

\* one turn that spawns a sub-agent, and the sub-agent's turn, in which the
\* model answers at once
ControlProfile ==
    [turns |-> 2, calls |-> 1,
     rich |-> {ToolUse(<<"session_spawn">>)},
     plain |-> {EndTurn(0)},
     outcomes |-> {OkOutput}, errors |-> {[head |-> "E1", tail |-> "x"]},
     worker |-> {EndTurn(0)}, follow |-> TRUE]

\* turns that may spawn sub-agents, seen from the session store: the tasks of
\* the sub-agents are not followed beyond their tokio::spawn
StoreProfile ==
    [turns |-> MaxTurns, calls |-> 1,
     rich |-> {ToolUse(<<"session_spawn">>)},
     plain |-> {EndTurn(0)},
     outcomes |-> {OkOutput}, errors |-> {},
     worker |-> {}, follow |-> FALSE]

\* one turn that spawns a sub-agent, and the sub-agent's turn, in which the
\* model asks for fs_read, alone or followed by a tool that no registry knows
ToolProfile ==
    [turns |-> 2, calls |-> 1,
     rich |-> {ToolUse(<<"session_spawn">>)},
     plain |-> {EndTurn(0)},
     outcomes |-> FsReadOutcomes, errors |-> {[head |-> "E1", tail |-> "x"]},
     worker |-> {ToolUse(<<"fs_read">>), ToolUse(<<"fs_read", "no_such_tool">>)},
     follow |-> TRUE]

\* one turn in which the model may ask for one more tool call for ever
IterProfile ==
    [turns |-> 1, calls |-> 0, rich |-> {},
     plain |-> {EndTurn(0), ToolUse(<<"fs_read">>)},
     outcomes |-> {OkOutput}, errors |-> {}, worker |-> {}, follow |-> TRUE]

\* ------------------------------------------------------------ specifications
\* the state after Gateway::new
GatewayConstructed ==
    /\ active_session_key = "main"
    /\ sessions = {}
    /\ next_id = 1
    /\ messages = <<>>
    /\ clock = 1
    /\ nturns = 0
    /\ event_bus = [t \in 1..MaxTurns |-> <<>>]
    /\ gw = [t \in 1..MaxTurns |-> IdleGw]
    /\ a2g = [t \in 1..MaxTurns |-> <<>>]
    /\ g2a = [t \in 1..MaxTurns |-> <<>>]
    /\ ends = [t \in 1..MaxTurns |-> NoEnds]
    /\ ag = [t \in 1..MaxTurns |-> NoAgent]
    /\ br = [t \in 1..MaxTurns |-> NoBridge]
    /\ lp = [t \in 1..MaxTurns |-> NoLoop]
    /\ sockets = {}

\* Database::open on a fresh file: the observations table is empty.
DatabaseConstructed ==
    /\ observations = <<>>
    /\ wall = 0
    /\ observed = <<>>

Constructed ==
    /\ GatewayConstructed
    /\ DatabaseConstructed
    /\ policy_check = Unchecked("unix", <<>>)
    /\ pm = NoProcesses
    /\ desk = NoQuestions
    /\ mem = NoMemory
    /\ reg = NoRegistry
    /\ ep = NoEndpoints

Init == cfg = GatewayProfile /\ Constructed

InitTurn == cfg = TurnProfile /\ Constructed

InitIter == cfg = IterProfile /\ Constructed

InitBreaker == cfg = BreakerProfile /\ Constructed

InitReset == cfg = ResetProfile /\ Constructed

InitSub == cfg = SubProfile /\ Constructed

InitStore == cfg = StoreProfile /\ Constructed

InitControl == cfg = ControlProfile /\ Constructed

\* several turns, no tools
Next ==
    \/ \E key \in Keys : SwitchSession(key)
    \/ SendSnapshot
    \/ \E t \in 1..MaxTurns :
         \/ SendPersist(t)
         \/ GwStartTask(t)
         \/ GwAccept(t)
         \/ GwRecv(t)
         \/ GwPipeClosed(t)
         \/ GwWaitChild(t)
         \/ AgConnect(t)
         \/ AgHandshake(t)
         \/ LlmCall(t)
         \/ AgTurnDone(t)
         \/ AgTurnComplete(t)

\* one turn, with text, local and bridge tools
NextTurn ==
    \/ SendSnapshot
    \/ \E t \in 1..MaxTurns :
         \/ SendPersist(t)
         \/ GwStartTask(t)
         \/ GwAccept(t)
         \/ GwRecv(t)
         \/ GwRespond(t)
         \/ GwPipeClosed(t)
         \/ GwWaitChild(t)
         \/ AgConnect(t)
         \/ AgHandshake(t)
         \/ AgTextDelta(t)
         \/ AgBridgeRelay(t)
         \/ AgBridgeResponse(t)
         \/ AgTurnDone(t)
         \/ AgForward(t)
         \/ AgTurnComplete(t)
         \/ LlmCall(t)
         \/ ExecTool(t)
         \/ BridgeRequest(t)
         \/ BridgeReturn(t)

\* one turn, bridge tools only
NextBreaker ==
    \/ SendSnapshot
    \/ \E t \in 1..MaxTurns :
         \/ SendPersist(t)
         \/ GwStartTask(t)
         \/ GwAccept(t)
         \/ GwRecv(t)
         \/ GwRespond(t)
         \/ GwPipeClosed(t)
         \/ GwWaitChild(t)
         \/ AgConnect(t)
         \/ AgHandshake(t)
         \/ AgBridgeRelay(t)
         \/ AgBridgeResponse(t)
         \/ AgTurnDone(t)
         \/ AgForward(t)
         \/ AgTurnComplete(t)
         \/ LlmCall(t)
         \/ BridgeRequest(t)
         \/ BridgeReturn(t)

\* one turn, a bridge tool and an unknown tool
NextReset ==
    \/ SendSnapshot
    \/ \E t \in 1..MaxTurns :
         \/ SendPersist(t)
         \/ GwStartTask(t)
         \/ GwAccept(t)
         \/ GwRecv(t)
         \/ GwRespond(t)
         \/ GwPipeClosed(t)
         \/ GwWaitChild(t)
         \/ AgConnect(t)
         \/ AgHandshake(t)
         \/ AgBridgeRelay(t)
         \/ AgBridgeResponse(t)
         \/ AgTurnDone(t)
         \/ AgForward(t)
         \/ AgTurnComplete(t)
         \/ LlmCall(t)
         \/ ExecTool(t)
         \/ BridgeRequest(t)
         \/ BridgeReturn(t)

\* a turn that spawns sub-agents, and the sub-agents' turns
NextSub ==
    \/ SendSnapshot
    \/ \E t \in 1..MaxTurns :
         \/ SendPersist(t)
         \/ GwStartTask(t)
         \/ GwAccept(t)
         \/ GwRecv(t)
         \/ GwRespond(t)
         \/ GwPipeClosed(t)
         \/ GwWaitChild(t)
         \/ AgConnect(t)
         \/ AgHandshake(t)
         \/ AgBridgeRelay(t)
         \/ AgBridgeResponse(t)
         \/ AgTurnDone(t)
         \/ AgForward(t)
         \/ AgTurnComplete(t)
         \/ LlmCall(t)
         \/ ExecTool(t)
         \/ BridgeRequest(t)
         \/ BridgeReturn(t)

\* the same, with sub-agent control requests
NextControl ==
    \/ SendSnapshot
    \/ \E t \in 1..MaxTurns :
         \/ SendPersist(t)
         \/ GwStartTask(t)
         \/ GwAccept(t)
         \/ GwRecv(t)
         \/ GwRespond(t)
         \/ ControlRequest(t)
         \/ GwPipeClosed(t)
         \/ GwWaitChild(t)
         \/ AgConnect(t)
         \/ AgHandshake(t)
         \/ AgBridgeRelay(t)
         \/ AgBridgeResponse(t)
         \/ AgTurnDone(t)
         \/ AgForward(t)
         \/ AgTurnComplete(t)
         \/ LlmCall(t)
         \/ BridgeRequest(t)
         \/ BridgeReturn(t)

\* the same, with the session operations of the UI
NextStore ==
    \/ \E key \in UiKeys : SwitchSession(key)
    \/ \E key \in UiKeys : DeleteSession(key)
    \/ \E old_key \in UiKeys : \E new_key \in Keys : RenameSession(old_key, new_key)
    \/ SendSnapshot
    \/ \E t \in 1..MaxTurns :
         \/ SendPersist(t)
         \/ GwStartTask(t)
         \/ GwAccept(t)
         \/ GwRecv(t)
         \/ GwRespond(t)
         \/ GwPipeClosed(t)
         \/ GwWaitChild(t)
         \/ AgConnect(t)
         \/ AgHandshake(t)
         \/ AgBridgeRelay(t)
         \/ AgBridgeResponse(t)
         \/ AgTurnDone(t)
         \/ AgForward(t)
         \/ AgTurnComplete(t)
         \/ LlmCall(t)
         \/ BridgeRequest(t)
         \/ BridgeReturn(t)

\* one turn, tool calls without end
NextIter ==
    \/ SendSnapshot
    \/ \E t \in 1..MaxTurns :
         \/ SendPersist(t)
         \/ GwStartTask(t)
         \/ GwAccept(t)
         \/ GwRecv(t)
         \/ GwPipeClosed(t)
         \/ GwWaitChild(t)
         \/ AgConnect(t)
         \/ AgHandshake(t)
         \/ AgTurnDone(t)
         \/ AgForward(t)
         \/ AgTurnComplete(t)
         \/ LlmCall(t)
         \/ ExecTool(t)

Spec == Init /\ [][Next]_vars

SpecTurn == InitTurn /\ [][NextTurn]_vars

\* one turn of an agent whose supervisor may withdraw it
NextAgent ==
    \/ NextTurn
    \/ \E t \in 1..MaxTurns : PeerCancels(t)

SpecAgent == InitTurn /\ [][NextAgent]_vars

\* The steps of the task and of the agent process of turn t; the runtime
\* and the operating system schedule them.
TurnSteps(t) ==
    \/ SendPersist(t)
    \/ GwStartTask(t)
    \/ GwAccept(t)
    \/ GwRecv(t)
    \/ GwRespond(t)
    \/ GwPipeClosed(t)
    \/ GwWaitChild(t)
    \/ AgConnect(t)
    \/ AgHandshake(t)
    \/ AgTextDelta(t)
    \/ AgBridgeRelay(t)
    \/ AgBridgeResponse(t)
    \/ AgTurnDone(t)
    \/ AgForward(t)
    \/ AgTurnComplete(t)
    \/ LlmCall(t)
    \/ ExecTool(t)
    \/ BridgeRequest(t)
    \/ BridgeReturn(t)

\* one turn whose tasks and processes are scheduled fairly
SpecTurnLive ==
    InitTurn /\ [][NextTurn]_vars /\ \A t \in 1..MaxTurns : WF_vars(TurnSteps(t))

\* one turn of an agent whose supervisor may end, or send Cancel, while a
\* request of the bridge is outstanding
NextBridge ==
    \/ NextTurn
    \/ \E t \in 1..MaxTurns : PeerCloses(t)
    \/ \E t \in 1..MaxTurns : PeerInterrupts(t)

SpecBridge ==
    InitTurn /\ [][NextBridge]_vars /\ \A t \in 1..MaxTurns : WF_vars(TurnSteps(t))

SpecIter == InitIter /\ [][NextIter]_vars

SpecReset == InitReset /\ [][NextReset]_vars

SpecSub == InitSub /\ [][NextSub]_vars

InitTools == cfg = ToolProfile /\ Constructed

SpecTools == InitTools /\ [][NextSub]_vars

SpecControl == InitControl /\ [][NextControl]_vars

SpecStore == InitStore /\ [][NextStore]_vars

SpecBreaker == InitBreaker /\ [][NextBreaker]_vars


\* ------------------------------------------------- observation store (db)
\* Arguments of record_observation as the gateway passes them: a tool use
\* keyed by the tool name, a path access keyed by the path with the tool as
\* value.
ObservationInputs ==
    { [kind |-> "tool_use", key |-> "fs_read", value |-> "none"],
      [kind |-> "path_access", key |-> "/tmp/test.txt", value |-> "fs_read"],
      [kind |-> "path_access", key |-> "/tmp/test.txt", value |-> "fs_write"] }

\* WHERE ts > one_hour_ago of the UPDATE, always true.
RecentWhenever(row, now) == TRUE

\* WHERE ts > ?4 with ?4 = now - 1 hour.  RFC 3339 strings in UTC compare as
\* the instants they denote.
Recent(row, now) == row.ts > now - ObservationWindow

\* WHERE kind = ?2 AND key = ?3 AND ts > ?4
Matches(row, kind, key, now) ==
    row.kind = kind /\ row.key = key /\ Recent(row, now)

\* Database::record_observation: UPDATE the recent rows of (kind, key), and
\* INSERT a row with count 1 when the UPDATE changed no row.  The connection
\* mutex is held for the whole call.
RecordObservation(table, in, now) ==
    LET hit == {i \in 1..Len(table) : Matches(table[i], in.kind, in.key, now)}
    IN IF hit /= {}
       THEN [i \in 1..Len(table) |->
               IF i \in hit
               THEN [table[i] EXCEPT !.count = @ + 1, !.ts = now]
               ELSE table[i]]
       ELSE Append(table, [ts |-> now, kind |-> in.kind, key |-> in.key,
                           value |-> in.value, count |-> 1,
                           created_at |-> now])

record_observation(in) ==
    /\ in \in ObservationInputs
    /\ Len(observed) < MaxObservations
    /\ observations' = RecordObservation(observations, in, wall)
    /\ observed' = Append(observed, [kind |-> in.kind, key |-> in.key,
                                     at |-> wall])
    /\ UNCHANGED <<cfg, turn_state, wall, policy_check, pm, desk, ep, reg, mem>>

\* Time passes between two calls.
WallAdvances ==
    /\ wall < MaxWall
    /\ wall' = wall + 1
    /\ UNCHANGED <<cfg, turn_state, observations, observed, policy_check, pm, desk, ep, reg,
      mem>>

InitObservations == cfg = GatewayProfile /\ Constructed

NextObservations ==
    \/ \E in \in ObservationInputs : record_observation(in)
    \/ WallAdvances

SpecObservations == InitObservations /\ [][NextObservations]_vars

InitPolicy ==
    /\ cfg = GatewayProfile
    /\ GatewayConstructed
    /\ DatabaseConstructed
    /\ pm = NoProcesses
    /\ desk = NoQuestions
    /\ mem = NoMemory
    /\ reg = NoRegistry
    /\ ep = NoEndpoints
    /\ policy_check \in {Unchecked(pf, pls) :
                           pf \in Platforms, pls \in PolicyLists(MaxPolicies)}

NextPolicy == \E target \in Targets, write \in BOOLEAN : CheckAccess(target, write)

SpecPolicy == InitPolicy /\ [][NextPolicy]_vars

InitProcesses == cfg = GatewayProfile /\ Constructed

NextProcesses ==
    \/ FgSpawn
    \/ FgInsert
    \/ DeadlinePasses
    \/ FgPoll
    \/ FgKillLocksMap
    \/ FgKillChild
    \/ FgRemove
    \/ BgSpawn
    \/ BgInsert
    \/ \E sid \in Sids : KillLocksMap(sid)
    \/ KillChild
    \/ List
    \/ Cleanup
    \/ \E sid \in Sids :
         \/ WatcherLocksChild(sid)
         \/ WatcherWaitReturns(sid)
         \/ WatcherLocksRunning(sid)
         \/ WatcherClearsRunning(sid)
         \/ WatcherStoresCode(sid)
         \/ ChildExits(sid)
         \/ EntryAges(sid)

SpecProcesses == InitProcesses /\ [][NextProcesses]_vars

\* run_foreground and the tasks of its process, with list and cleanup called
\* at any time.
ForegroundSteps ==
    \/ FgSpawn
    \/ FgInsert
    \/ FgPoll
    \/ FgKillLocksMap
    \/ FgKillChild
    \/ FgRemove

WatcherSteps(sid) ==
    \/ WatcherLocksChild(sid)
    \/ WatcherWaitReturns(sid)
    \/ WatcherLocksRunning(sid)
    \/ WatcherClearsRunning(sid)
    \/ WatcherStoresCode(sid)

NextForeground ==
    \/ FgSpawn
    \/ FgInsert
    \/ DeadlinePasses
    \/ FgPoll
    \/ FgKillLocksMap
    \/ FgKillChild
    \/ FgRemove
    \/ List
    \/ Cleanup
    \/ \E sid \in Sids :
         \/ WatcherLocksChild(sid)
         \/ WatcherWaitReturns(sid)
         \/ WatcherLocksRunning(sid)
         \/ WatcherClearsRunning(sid)
         \/ WatcherStoresCode(sid)
         \/ ChildExits(sid)
         \/ EntryAges(sid)

\* The runtime schedules every task that can run: the caller of
\* run_foreground and the waiter tasks take their steps.  Nothing makes a
\* command end or the clock reach the deadline.
SpecForeground ==
    /\ InitProcesses
    /\ [][NextForeground]_vars
    /\ WF_vars(ForegroundSteps)
    /\ \A sid \in Sids : WF_vars(WatcherSteps(sid))

\* A process started in the background, kill called on it or on an id the
\* map does not hold, and list and cleanup called at any time.
KillSteps ==
    \/ \E sid \in Sids : KillLocksMap(sid)
    \/ KillChild

NextKill ==
    \/ BgSpawn
    \/ BgInsert
    \/ \E sid \in Sids : KillLocksMap(sid)
    \/ KillChild
    \/ List
    \/ Cleanup
    \/ \E sid \in Sids :
         \/ WatcherLocksChild(sid)
         \/ WatcherWaitReturns(sid)
         \/ WatcherLocksRunning(sid)
         \/ WatcherClearsRunning(sid)
         \/ WatcherStoresCode(sid)
         \/ ChildExits(sid)
         \/ EntryAges(sid)

\* The runtime schedules every task that can run: spawn's insertion, a kill
\* that was called, and the waiter tasks take their steps.  Nothing makes a
\* command end.
SpecKill ==
    /\ InitProcesses
    /\ [][NextKill]_vars
    /\ WF_vars(BgInsert)
    /\ WF_vars(KillChild)
    /\ \A sid \in Sids : WF_vars(WatcherSteps(sid))

InitQuestions == cfg = GatewayProfile /\ Constructed

NextQuestions ==
    \/ \E text \in Texts : Inbound(text)
    \/ \E w \in Askers, blocking \in BOOLEAN : AskOrchestrator(w, blocking)
    \/ \E w \in Askers : AnswerArrives(w)
    \/ \E w \in Askers : AnswerTimesOut(w)

SpecQuestions == InitQuestions /\ [][NextQuestions]_vars

InitEndpoints == cfg = GatewayProfile /\ Constructed

NextEndpoints ==
    \/ \E t \in 1..MaxTurns, sid \in EpSessions : EpCreateServer(t, sid)
    \/ \E t \in 1..MaxTurns : EpSpawnAgent(t)
    \/ \E t \in 1..MaxTurns : EpConnect(t)
    \/ \E t \in 1..MaxTurns : EpAccept(t)
    \/ \E t \in 1..MaxTurns : EpReturn(t)

SpecEndpoints == InitEndpoints /\ [][NextEndpoints]_vars

InitRegistry == cfg = GatewayProfile /\ Constructed

NextRegistry ==
    \/ \E session_kind \in SessionKinds, disabled \in DisabledSets :
         BuildRegistry(session_kind, disabled)
    \/ \E name \in CallNames : ExecuteCall(name)

SpecRegistry == InitRegistry /\ [][NextRegistry]_vars

InitMemory == cfg = GatewayProfile /\ Constructed

NextMemory ==
    \/ \E p \in Passes : ReflectReads(p)
    \/ \E p \in Passes, worth \in BOOLEAN : ReflectWrites(p, worth)
    \/ EditorReads
    \/ EditorWrites

SpecMemory == InitMemory /\ [][NextMemory]_vars

\* ------------------------------------------------------------- properties
TurnEvents == {"TextDelta", "ToolCallStart", "ToolCallResult"}
TerminalEvents == {"TurnComplete", "Error"}

HasEvent(evs, type) == \E i \in 1..Len(evs) : evs[i].type = type

\* C1: the events a turn's task publishes on the bus hold at most one
\* terminal event (a TurnComplete or an Error, never both), and no TextDelta,
\* ToolCallStart or ToolCallResult comes after it.
C1_OneTerminalEvent ==
    \A t \in 1..MaxTurns :
        \A i, j \in 1..Len(event_bus[t]) :
            (i < j /\ event_bus[t][i].type \in TerminalEvents)
                => event_bus[t][j].type \notin TerminalEvents \cup TurnEvents

\* a finished turn that published text and tool events, then TurnComplete
C1_Witness ==
    \E t \in 1..MaxTurns :
        /\ gw[t].pc = "done"
        /\ Last(event_bus[t]).type = "TurnComplete"
        /\ HasEvent(event_bus[t], "ToolCallResult")

\* turn t has taken its history snapshot
Snapshotted(t) == gw[t].pc /= "idle"

\* the snapshot h2 is the snapshot h1, then the User message of turn t1, then
\* its Assistant message
ExtendsByTurn(h1, t1, h2) ==
    /\ Len(h2) = Len(h1) + 2
    /\ SubSeq(h2, 1, Len(h1)) = h1
    /\ h2[Len(h1) + 1].role = "User" /\ h2[Len(h1) + 1].turn = t1
    /\ h2[Len(h1) + 2].role = "Assistant" /\ h2[Len(h1) + 2].turn = t1

\* C2: for two turns t1 < t2 of one session with no turn of the session
\* between them, the history snapshot of t2 is the snapshot of t1 followed by
\* t1's User message and t1's Assistant message.
C2_SnapshotExtendsPrevious ==
    \A t1, t2 \in 1..MaxTurns :
        (/\ t1 < t2
         /\ Snapshotted(t1) /\ Snapshotted(t2)
         /\ gw[t1].session_id = gw[t2].session_id
         /\ \A u \in (t1 + 1)..(t2 - 1) : gw[u].session_id /= gw[t1].session_id)
            => ExtendsByTurn(gw[t1].history, t1, gw[t2].history)

\* the task of turn t is spawned and has not returned
InFlight(t) == gw[t].pc \in {"task", "accept", "loop", "wait_child"}

TurnCompletePersisted(t) ==
    \E i \in 1..Len(messages) : messages[i].role = "Assistant" /\ messages[i].turn = t

\* C3: when a turn of a session has taken its snapshot, the TurnComplete of
\* every earlier turn of the session is persisted, and no two turns of one
\* session are in flight together.
C3_TurnsOfASessionAreSerial ==
    \A t1, t2 \in 1..MaxTurns :
        (t1 < t2 /\ Snapshotted(t2) /\ gw[t1].session_id = gw[t2].session_id)
            => /\ TurnCompletePersisted(t1)
               /\ ~(InFlight(t1) /\ InFlight(t2))

AssistantOf(sid) ==
    SelectSeq(messages, LAMBDA m : m.session_id = sid /\ m.role = "Assistant")

RECURSIVE SumInput(_)
SumInput(ms) == IF ms = <<>> THEN 0 ELSE Head(ms).token_input + SumInput(Tail(ms))

RECURSIVE SumOutput(_)
SumOutput(ms) == IF ms = <<>> THEN 0 ELSE Head(ms).token_output + SumOutput(Tail(ms))

\* the event loop of turn t ended without having received a TurnComplete
PipeClosedEarly(t) ==
    /\ gw[t].pc \in {"wait_child", "done"}
    /\ gw[t].result /= "err"
    /\ ~HasEvent(event_bus[t], "TurnComplete")

\* C4: when the pipe of a turn closes before a TurnComplete was received, the
\* last event published for the turn is an Error, the messages table holds no
\* Assistant message of the turn, and the session's token counters are the
\* sums over the Assistant messages of its other turns.
C4_PipeClosedEndsInError ==
    \A t \in 1..MaxTurns :
        PipeClosedEarly(t) =>
            /\ event_bus[t] /= <<>>
            /\ Last(event_bus[t]).type = "Error"
            /\ \A i \in 1..Len(messages) :
                   ~(messages[i].role = "Assistant" /\ messages[i].turn = t)
            /\ LET s == get_session(gw[t].session_id) IN
                   /\ s.token_input = SumInput(AssistantOf(s.id))
                   /\ s.token_output = SumOutput(AssistantOf(s.id))

\* a turn whose pipe closed early, on a session that another turn completed
C4_Witness ==
    \E t, u \in 1..MaxTurns :
        /\ PipeClosedEarly(t)
        /\ gw[t].pc = "done"
        /\ gw[u].session_id = gw[t].session_id
        /\ gw[u].pc = "done"
        /\ HasEvent(event_bus[u], "TurnComplete")
        /\ get_session(gw[t].session_id).token_input > 0

\* the TurnComplete events the agent of turn t has sent: those still in the
\* pipe and those the supervisor has republished
SentTurnCompletes(t) ==
    {ev \in {a2g[t][i] : i \in 1..Len(a2g[t])}
              \cup {event_bus[t][i] : i \in 1..Len(event_bus[t])} :
        ev.type = "TurnComplete"}

\* C5: in every TurnComplete the agent sends, tool_calls and tool_results have
\* the same length and the i-th result answers the i-th call.
C5_CallsPairedWithResults ==
    \A t \in 1..MaxTurns : \A ev \in SentTurnCompletes(t) :
        /\ Len(ev.message.tool_calls) = Len(ev.message.tool_results)
        /\ \A i \in 1..Len(ev.message.tool_calls) :
               i <= Len(ev.message.tool_results)
                   /\ ev.message.tool_results[i].tool_call_id = ev.message.tool_calls[i].id

\* a TurnComplete with the result of an unknown tool, the result of a tool
\* that failed, and a result the circuit breaker rewrote
C5_Witness ==
    \E t \in 1..MaxTurns : \E ev \in SentTurnCompletes(t) :
        LET calls == ev.message.tool_calls
            results == ev.message.tool_results
        IN /\ \E i \in 1..Len(calls) : calls[i].name \notin Registry("main", {})
           /\ \E i \in 1..Len(calls) :
                  calls[i].name \in Registry("main", {}) /\ results[i].is_error
           /\ \E i \in 1..Len(results) : results[i].content.hint > 0

\* C6: what the agent writes to the pipe in a turn is TextDelta*, then
\* (ToolCallStart ToolCallResult)* with each result right after its own start,
\* then TurnComplete.
C6_ProtocolOrder ==
    \A t \in 1..MaxTurns :
        LET evs == a2g[t] IN
        \A i \in 1..Len(evs) :
            /\ evs[i].type = "TextDelta"
                   => \A j \in 1..(i - 1) : evs[j].type \in {"TextDelta", "ProcessRequest"}
            /\ (evs[i].type = "ToolCallStart" /\ i < Len(evs))
                   => /\ evs[i + 1].type = "ToolCallResult"
                      /\ evs[i + 1].result.tool_call_id = evs[i].tool_call.id
            /\ evs[i].type = "TurnComplete" => i = Len(evs)

Ids(log, dir) ==
    LET sel == SelectSeq(log, LAMBDA e : e.dir = dir)
    IN [i \in 1..Len(sel) |-> sel[i].request_id]

\* C7: at every point of the supervisor's log of a pipe, the ids of the
\* responses sent are a prefix of the ids of the requests received, no id is
\* received twice, and every GatewayBridge::request call returned the result
\* of the response that carries the id the call allocated.
C7_ResponsesMatchRequests ==
    \A t \in 1..MaxTurns :
        /\ \A n \in 0..Len(gw[t].served) :
               LET log == SubSeq(gw[t].served, 1, n)
               IN /\ IsPrefix(Ids(log, "response"), Ids(log, "request"))
                  /\ \A i, j \in 1..Len(Ids(log, "request")) :
                         i /= j => Ids(log, "request")[i] /= Ids(log, "request")[j]
        /\ \A k \in 1..Len(br[t].returned) :
               LET ret == br[t].returned[k] IN
               /\ ret.response = ret.allocated
               /\ \E i \in 1..Len(gw[t].served) :
                      /\ gw[t].served[i].dir = "response"
                      /\ gw[t].served[i].request_id = ret.allocated
                      /\ gw[t].served[i].result = ret.result

\* three requests of one turn answered and returned, one of them with an error
C7_Witness ==
    \E t \in 1..MaxTurns :
        /\ Len(br[t].returned) >= 3
        /\ \E k \in 1..Len(br[t].returned) : br[t].returned[k].result.kind = "Error"
        /\ \E k \in 1..Len(br[t].returned) : br[t].returned[k].result.kind /= "Error"

\* C8: a turn makes at most MAX_TOOL_ITERATIONS model calls; when all of them
\* stopped with tool_use the turn task returns Ok with the max-iterations
\* text, and an agent that has exited after such a turn exited cleanly, having
\* sent a TurnComplete with that text and all the calls and results, and no
\* Error.
C8_IterationBound ==
    \A t \in 1..MaxTurns :
        /\ lp[t].model_calls <= MAX_TOOL_ITERATIONS
        /\ (lp[t].pc = "returned" /\ lp[t].tool_use_stops = MAX_TOOL_ITERATIONS)
               => /\ lp[t].result = "Ok"
                  /\ lp[t].response_text = MaxIterationsText
                  /\ Len(lp[t].all_tool_results) >= MAX_TOOL_ITERATIONS
        /\ (ag[t].pc = "exited" /\ lp[t].tool_use_stops = MAX_TOOL_ITERATIONS)
               => /\ ag[t].exit_code = 0
                  /\ ~HasEvent(a2g[t] \o event_bus[t], "Error")
                  /\ \E ev \in SentTurnCompletes(t) :
                         /\ ev.message.content = MaxIterationsText
                         /\ ev.message.tool_calls = lp[t].all_tool_calls
                         /\ ev.message.tool_results = lp[t].all_tool_results

\* a turn of MAX_TOOL_ITERATIONS tool-use responses whose TurnComplete the
\* supervisor has published
C8_Witness ==
    \E t \in 1..MaxTurns :
        /\ lp[t].tool_use_stops = MAX_TOOL_ITERATIONS
        /\ Last(event_bus[t]).type = "TurnComplete"
        /\ Len(Last(event_bus[t]).message.tool_calls) = MAX_TOOL_ITERATIONS

\* the signature of the i-th tool call of a turn task
SigAt(l, i) == Sig(l.all_tool_calls[i].name, l.all_tool_results[i].content)

\* the latest call before the i-th to the same tool (0: there is none)
PrevOf(l, i) ==
    LET same == {j \in 1..(i - 1) : l.all_tool_calls[j].name = l.all_tool_calls[i].name}
    IN IF same = {} THEN 0 ELSE CHOOSE j \in same : \A k \in same : k <= j

\* how many of the tool's most recent results, the i-th included, are
\* failures with the signature of the i-th
RECURSIVE RunLength(_, _)
RunLength(l, i) ==
    IF ~l.all_tool_results[i].is_error THEN 0
    ELSE LET p == PrevOf(l, i) IN
         IF p /= 0 /\ l.all_tool_results[p].is_error /\ SigAt(l, p) = SigAt(l, i)
            THEN 1 + RunLength(l, p)
            ELSE 1

HintOf(l, i) == l.all_tool_results[i].content.hint

\* C9: the third of ERROR_REPEAT_THRESHOLD consecutive failures of a tool
\* with one signature says "3 times" and the two before it are unmodified;
\* every further consecutive failure with that signature carries the hint.
C9_ThirdFailureHinted ==
    \A t \in 1..MaxTurns : \A i \in 1..Len(lp[t].all_tool_results) :
        LET l == lp[t] IN
        /\ RunLength(l, i) >= ERROR_REPEAT_THRESHOLD => HintOf(l, i) > 0
        /\ RunLength(l, i) = ERROR_REPEAT_THRESHOLD
               => /\ HintOf(l, i) = ERROR_REPEAT_THRESHOLD
                  /\ HintOf(l, PrevOf(l, i)) = 0
                  /\ HintOf(l, PrevOf(l, PrevOf(l, i))) = 0

\* C10: a result carries the hint only when the ERROR_REPEAT_THRESHOLD most
\* recent results of its tool, itself included, are failures with one
\* signature.
C10_HintOnlyAfterConsecutiveFailures ==
    \A t \in 1..MaxTurns : \A i \in 1..Len(lp[t].all_tool_results) :
        HintOf(lp[t], i) > 0 => RunLength(lp[t], i) >= ERROR_REPEAT_THRESHOLD

\* a step of the turn task t that records the result of a successful call
RecordsSuccess(t) ==
    /\ Len(lp'[t].all_tool_results) = Len(lp[t].all_tool_results) + 1
    /\ ~Last(lp'[t].all_tool_results).is_error

\* the failures of the tool of the i-th call since the tool's latest success
\* (or since the start of the turn), the i-th included
RECURSIVE FailuresSinceSuccess(_, _)
FailuresSinceSuccess(l, i) ==
    IF i = 0 \/ ~l.all_tool_results[i].is_error THEN 0
    ELSE 1 + FailuresSinceSuccess(l, PrevOf(l, i))

\* an earlier call of the tool of the i-th call succeeded
SucceededBefore(l, i) ==
    \E j \in 1..(i - 1) : /\ l.all_tool_calls[j].name = l.all_tool_calls[i].name
                           /\ ~l.all_tool_results[j].is_error

\* C11: a successful call of a tool removes every failure counter of that
\* tool and leaves the counters of the other tools as they were; the first
\* ERROR_REPEAT_THRESHOLD-1 failures of the tool after a success carry no hint.
C11_SuccessResetsTool ==
    /\ [][\A t \in 1..MaxTurns :
            RecordsSuccess(t) =>
                LET name == Last(lp'[t].all_tool_calls).name IN
                /\ \A k \in DOMAIN lp'[t].error_counts : k[1] /= name
                /\ \A k \in DOMAIN lp[t].error_counts :
                       k[1] /= name => /\ k \in DOMAIN lp'[t].error_counts
                                       /\ lp'[t].error_counts[k] = lp[t].error_counts[k]]_vars
    /\ [](\A t \in 1..MaxTurns : \A i \in 1..Len(lp[t].all_tool_results) :
            (/\ lp[t].all_tool_results[i].is_error
             /\ SucceededBefore(lp[t], i)
             /\ FailuresSinceSuccess(lp[t], i) < ERROR_REPEAT_THRESHOLD)
                => HintOf(lp[t], i) = 0)

\* a failure, a success and ERROR_REPEAT_THRESHOLD-1 more failures of one
\* tool with one signature, none hinted, while another tool keeps its counter
C11_Witness ==
    \E t \in 1..MaxTurns : \E i \in 1..Len(lp[t].all_tool_results) :
        LET l == lp[t] IN
        /\ FailuresSinceSuccess(l, i) = ERROR_REPEAT_THRESHOLD - 1
        /\ SucceededBefore(l, i)
        /\ RunLength(l, i) = ERROR_REPEAT_THRESHOLD - 1
        /\ HintOf(l, i) = 0
        /\ \E j \in 1..(i - 1) : /\ l.all_tool_calls[j].name = l.all_tool_calls[i].name
                                 /\ l.all_tool_results[j].is_error
                                 /\ SigAt(l, j) = SigAt(l, i)
                                 /\ FailuresSinceSuccess(l, j) = 1
                                 /\ ~SucceededBefore(l, j)
        /\ \E k \in DOMAIN l.error_counts :
               k[1] /= l.all_tool_calls[i].name /\ l.error_counts[k] > 0

\* the turn t is about to send the answer to a SpawnSubagent request
AnswersSpawn(t) ==
    /\ gw[t].pc = "respond"
    /\ gw[t].pending.result.kind = "SubagentSpawned"

\* the sub-agent sessions a SubagentSpawned answer of the turn t names
SpawnedBy(t) ==
    {s \in sessions : /\ s.id = gw[t].pending.result.session_id
                      /\ s.kind = "Subagent"
                      /\ s.parent_id = gw[t].session_id}

\* ListSubagents of the parent reports the session s with the given status
Listed(s, status) ==
    \E e \in get_subagents(sessions, s.parent_id) :
        e.session_id = s.id /\ e.session_key = s.key /\ e.status = status

\* the task of the sub-agent session s has returned
TaskReturned(s) ==
    \E c \in 1..MaxTurns : /\ gw[c].origin = "subagent"
                            /\ gw[c].session_id = s.id
                            /\ gw[c].pc = "done"

\* C12 as stated: when the answer to SpawnSubagent is sent, the sub-agent
\* session of the requesting session exists, is running and is listed.
C12_SpawnedIsRunning ==
    \A t \in 1..MaxTurns :
        AnswersSpawn(t) =>
            \E s \in SpawnedBy(t) : s.subagent_status = "running" /\ Listed(s, "running")

\* C12, amended: when the answer to SpawnSubagent is sent, the sub-agent
\* session of the requesting session exists and is listed; it is running
\* exactly when its task, which runs beside the sender, has not yet returned,
\* and completed or failed otherwise.
C12_SpawnedIsListed ==
    \A t \in 1..MaxTurns :
        AnswersSpawn(t) =>
            \E s \in SpawnedBy(t) :
                /\ s.subagent_status \in {"running", "completed", "failed"}
                /\ Listed(s, s.subagent_status)
                /\ s.subagent_status = "running" <=> ~TaskReturned(s)

\* the answer is about to be sent while the sub-agent's turn is under way
C12_Witness ==
    \E t \in 1..MaxTurns :
        /\ AnswersSpawn(t)
        /\ \E s \in SpawnedBy(t) :
              /\ s.subagent_status = "running"
              /\ \E c \in 1..MaxTurns : /\ gw[c].session_id = s.id
                                        /\ gw[c].origin = "subagent"
                                        /\ gw[c].pc = "loop"
                                        /\ lp[c].pc = "llm"

\* the task of the sub-agent turn c has returned
SubagentTaskDone(c) == gw[c].origin = "subagent" /\ gw[c].pc = "done"

\* the content of the assistant message of the TurnComplete published for c
FinalContent(c) ==
    LET i == CHOOSE j \in 1..Len(event_bus[c]) : event_bus[c][j].type = "TurnComplete"
    IN event_bus[c][i].message.content

\* C13: when a sub-agent's turn has ended with TurnComplete, the sub-agent is
\* completed and its summary is the content of its final assistant message.
C13_SummaryIsFinalText ==
    \A c \in 1..MaxTurns :
        (SubagentTaskDone(c) /\ HasEvent(event_bus[c], "TurnComplete"))
            => \E s \in sessions : /\ s.id = gw[c].session_id
                                    /\ s.subagent_status = "completed"
                                    /\ s.summary = FinalContent(c)

\* C14: when a sub-agent's turn has ended without a TurnComplete (an Error
\* event, a pipe closed early, a transport failure of the supervisor), the
\* sub-agent is failed, never completed, and its summary is the error.
C14_ErrorMeansFailed ==
    \A c \in 1..MaxTurns :
        (SubagentTaskDone(c) /\ ~HasEvent(event_bus[c], "TurnComplete"))
            => \E s \in sessions : /\ s.id = gw[c].session_id
                                    /\ s.subagent_status = "failed"
                                    /\ s.summary = "error"

\* the status changes the sub-agent protocol allows
StatusMoves ==
    {<<"running", to>> : to \in {"waiting_for_answer", "paused", "completed",
                                  "failed", "cancelled"}}
        \cup {<<"waiting_for_answer", "running">>, <<"paused", "running">>}

TerminalStatuses == {"completed", "failed", "cancelled"}

\* C15: the status of a sub-agent session changes only along running ->
\* waiting_for_answer, paused, completed, failed or cancelled, and
\* waiting_for_answer or paused -> running; a completed, failed or cancelled
\* sub-agent keeps its status whatever control request or turn outcome follows.
C15_StatusOnlyMovesForward ==
    [][\A s \in sessions : \A s2 \in sessions' :
          (s.kind = "Subagent" /\ s2.id = s.id)
              => \/ s2.subagent_status = s.subagent_status
                 \/ <<s.subagent_status, s2.subagent_status>> \in StatusMoves]_vars

\* a control request was acknowledged for a sub-agent that had already ended
C15_Witness ==
    \E t \in 1..MaxTurns : \E i \in 1..Len(gw[t].control) :
        /\ gw[t].control[i].status \in TerminalStatuses
        /\ \E s \in sessions : /\ s.key = gw[t].control[i].session_key
                                /\ s.kind = "Subagent"
                                /\ s.subagent_status = gw[t].control[i].status

\* C16: when CancelSubagent, PauseSubagent or ResumeSubagent for a running or
\* paused sub-agent is acknowledged, the store holds the status asked for
\* (cancelled, paused, running) and ListSubagents reports it.
C16_ControlIsRecorded ==
    [][\A t \in 1..MaxTurns :
          Len(gw'[t].control) = Len(gw[t].control) + 1 =>
              LET e == Last(gw'[t].control) IN
              (/\ e.action \in {"CancelSubagent", "PauseSubagent", "ResumeSubagent"}
               /\ e.status \in {"running", "paused"}
               /\ e.result = ControlAck(e.action))
                  => \E s \in sessions' :
                        /\ s.key = e.session_key
                        /\ s.subagent_status = RequestedStatus(e.action)
                        /\ \E l \in get_subagents(sessions', s.parent_id) :
                              l.session_id = s.id /\ l.status = RequestedStatus(e.action)]_vars

\* C17: no Subagent session has a parent that is itself a Subagent session;
\* a turn that runs on a sub-agent session never causes a further sub-agent
\* to be created.
C17_NoNestedSubagents ==
    \A s \in sessions : \A p \in sessions :
        (s.kind = "Subagent" /\ p.id = s.parent_id) => p.kind /= "Subagent"

\* C18: the parent_id of every Subagent session is the id of a session of
\* the store, also after the parent was deleted or renamed.
C18_ParentExists ==
    \A s \in sessions :
        s.kind = "Subagent" => \E p \in sessions : p.id = s.parent_id

\* C19: delete_session refuses every session of kind Main, whatever its key:
\* no Main session ever leaves the store.
C19_MainIsNeverDeleted ==
    [][\A s \in sessions :
          s.kind = "Main" => \E s2 \in sessions' : s2.id = s.id]_vars

\* C20: the cumulative token_input and token_output of a session are the
\* sums of token_input and token_output over the Assistant messages persisted
\* for the session: every TurnComplete adds its totals exactly once.
C20_TokensAreSums ==
    \A s \in sessions :
        /\ s.token_input = SumInput(AssistantOf(s.id))
        /\ s.token_output = SumOutput(AssistantOf(s.id))

\* a session with the assistant messages of two turns and their totals
C20_Witness ==
    \E s \in sessions :
        /\ Len(AssistantOf(s.id)) >= 2
        /\ AssistantOf(s.id)[1].turn /= AssistantOf(s.id)[2].turn
        /\ AssistantOf(s.id)[1].token_input > 0
        /\ s.token_input = AssistantOf(s.id)[1].token_input
                               + AssistantOf(s.id)[2].token_input
        /\ s.token_output = AssistantOf(s.id)[1].token_output
                                + AssistantOf(s.id)[2].token_output

\* The (kind, key) pairs of the observation store's inputs.
ObservationKeys == {[kind |-> in.kind, key |-> in.key] : in \in ObservationInputs}

\* The times of the calls made for k, in call order.
RECURSIVE TimesOf(_, _)
TimesOf(log, k) ==
    IF log = <<>> THEN <<>>
    ELSE LET c == Last(log)
             before == TimesOf(SubSeq(log, 1, Len(log) - 1), k)
         IN IF c.kind = k.kind /\ c.key = k.key
            THEN Append(before, c.at) ELSE before

RowsOf(table, k) ==
    SelectSeq(table, LAMBDA r : r.kind = k.kind /\ r.key = k.key)

\* Every call for k came less than one hour after the previous one.
CloseCalls(times) ==
    \A i \in 2..Len(times) : times[i] - times[i - 1] < ObservationWindow

OneRowCountsAll(k) ==
    LET times == TimesOf(observed, k)
        rows == RowsOf(observations, k)
    IN (times /= <<>> /\ CloseCalls(times))
       => (Len(rows) = 1 /\ rows[1].count = Len(times))

\* This step is a call for k made more than one hour after the last
\* timestamp of k's rows.
LateCall(k) ==
    /\ Len(observed') = Len(observed) + 1
    /\ Last(observed').kind = k.kind /\ Last(observed').key = k.key
    /\ RowsOf(observations, k) /= <<>>
    /\ \A i \in 1..Len(RowsOf(observations, k)) :
           wall - RowsOf(observations, k)[i].ts > ObservationWindow

InsertsFresh(k) ==
    /\ Len(observations') = Len(observations) + 1
    /\ SubSeq(observations', 1, Len(observations)) = observations
    /\ Last(observations').kind = k.kind
    /\ Last(observations').key = k.key
    /\ Last(observations').count = 1

\* C21: N calls of record_observation for one (kind, key), each less than an
\* hour after the previous one, leave exactly one row for it with count N;
\* a call more than an hour after the row's last timestamp inserts a new row
\* with count 1 and increments nothing.
C21_ObservationsCoalesce ==
    /\ [](\A k \in ObservationKeys : OneRowCountsAll(k))
    /\ [][\A k \in ObservationKeys : LateCall(k) => InsertsFresh(k)]_vars

\* Three close calls have been counted in one row, and a late call for the
\* same pair has added a second row with count 1.
C21_Witness ==
    \E k \in ObservationKeys :
        LET rows == RowsOf(observations, k)
        IN /\ Len(rows) = 2
           /\ rows[1].count = 3
           /\ rows[2].count = 1
           /\ rows[2].ts - rows[1].ts > ObservationWindow

\* base is a component-wise prefix of path.
ComponentPrefix(base, path) ==
    /\ Len(base) <= Len(path)
    /\ \A i \in 1..Len(base) : base[i] = path[i]

DirectionPermitted(access, write) ==
    CASE access = "ReadWrite" -> TRUE
      [] access = "ReadOnly" -> ~write
      [] access = "WriteOnly" -> write

\* The policy matches the normalized target t.
PolicyMatches(policy_path, recursive, t) ==
    IF recursive
    THEN ComponentPrefix(policy_path, t)
    ELSE Len(t) = Len(policy_path) + 1 /\ ComponentPrefix(policy_path, t)

FailureContent(content) == content.head /= OkOutput.content.head

\* In this step the turn task of t records the result of a failed tool call.
RecordsFailure(t) ==
    /\ Len(lp'[t].all_tool_results) = Len(lp[t].all_tool_results) + 1
    /\ FailureContent(Last(lp'[t].all_tool_results).content)

\* C23: a tool failure (policy denial, executor error, unknown tool) becomes a
\* ToolResult with is_error = true for that call and the loop goes on to the
\* remaining calls and the next model call; no tool failure ends the turn
\* with an error or publishes an Error event.
C23_ToolFailureIsAResult ==
    [][\A t \in 1..MaxTurns :
         /\ RecordsFailure(t) =>
              /\ Last(lp'[t].all_tool_results).is_error
              /\ Last(lp'[t].all_tool_results).tool_call_id = Head(lp[t].blocks).id
              /\ IF Len(lp[t].blocks) > 1 THEN lp'[t].pc = "tools"
                 ELSE LoopContinues(lp[t].iteration) => lp'[t].pc = "llm"
              /\ lp'[t].result /= "Err"
              /\ event_bus' = event_bus
              /\ a2g' = a2g
         /\ (lp'[t].result = "Err" /\ lp[t].result /= "Err") => lp[t].pc = "llm"]_vars

\* A sub-agent's turn whose fs_read was denied and whose second call named an
\* unknown tool has completed, and its task published no Error event.
C23_Witness ==
    \E t \in 1..MaxTurns :
        /\ Len(lp[t].all_tool_results) = 2
        /\ lp[t].all_tool_results[1].content.head = <<"Access denied: ">>
        /\ lp[t].all_tool_results[1].is_error
        /\ lp[t].all_tool_results[2].is_error
        /\ gw[t].pc = "done"
        /\ \A i \in 1..Len(event_bus[t]) : event_bus[t][i].type /= "Error"

\* C24: run_foreground on a command that outlives the 60 s deadline returns
\* the timeout error once the loop has seen the deadline pass, and when it has
\* returned the child no longer runs and the map holds no entry for it.
C24_ForegroundTimesOut ==
    /\ (pm.fg.pc = "kill") ~> (pm.fg.pc = "returned" /\ pm.fg.result = "timeout")
    /\ []((pm.fg.pc = "returned" /\ pm.fg.result = "timeout")
            => (pm.child[ForegroundSid] /= "alive"
                /\ pm.processes[ForegroundSid] = "absent"))

\* C29: kill(sid) on a managed process that still runs returns without the
\* process ending by its own means, the process then stops and its running
\* flag becomes false, and the mutex of the map is free again for list,
\* get_output and spawn while the process goes on running.
C29_KillDoesNotWait ==
    /\ (pm.kl.pc = "child" /\ pm.child[pm.kl.sid] = "alive")
          ~> (pm.kl.pc = "done" /\ pm.child[pm.kl.sid] = "killed")
    /\ (pm.kl.pc = "done" /\ pm.kl.result = "ok")
          ~> (pm.kl.pc = "done" /\ ~pm.is_running[pm.kl.sid])
    /\ (pm.kl.pc = "child") ~> (pm.lock = "free")

\* This step is a call of cleanup.
CleanupStep == pm'.cleanups = pm.cleanups + 1

RemovedByStep == {sid \in Sids : pm.processes[sid] /= "absent"
                                 /\ pm'.processes[sid] = "absent"}

HasExited(sid) == pm.child[sid] \in {"exited", "killed"}

\* C30 as stated: cleanup removes exactly the entries whose process has
\* exited and whose start time is more than 30 minutes old.
C30_CleanupRemovesExactlyTheExited ==
    [][CleanupStep =>
         RemovedByStep = {sid \in Sids : /\ pm.processes[sid] = "old"
                                         /\ HasExited(sid)}]_vars

\* C30: cleanup removes every entry that is more than 30 minutes old and
\* whose is_running flag is false, removes only entries that are more than 30
\* minutes old and whose process has exited, and so never removes an entry
\* whose process still runs, whatever the waiter task, list and kill are doing.
C30_CleanupSparesTheRunning ==
    [][CleanupStep =>
         /\ \A sid \in RemovedByStep :
               /\ pm.processes[sid] = "old"
               /\ HasExited(sid)
               /\ pm.child[sid] /= "alive"
         /\ \A sid \in Sids :
               (pm.processes[sid] = "old" /\ ~pm.is_running[sid])
                  => sid \in RemovedByStep
         /\ \A sid \in Sids \ RemovedByStep :
               pm'.processes[sid] = pm.processes[sid]]_vars

\* cleanup has removed the entry of the background process while the waiter
\* task held the lock of its is_running flag, still true, and has kept the
\* old entry of the foreground process, which runs.
C30_Witness ==
    /\ pm.bg = "done"
    /\ pm.processes[BackgroundSid] = "absent"
    /\ pm.watcher[BackgroundSid] = "locked"
    /\ pm.is_running[BackgroundSid]
    /\ pm.cleanups > 0
    /\ pm.processes[ForegroundSid] = "old"
    /\ pm.child[ForegroundSid] = "alive"

\* run_agent_turn has returned Err for turn t: the pipe could not be made,
\* the agent not spawned or accepted, or a send, recv or parse failed.
TransportFailed(t) == gw[t].pc = "done" /\ gw[t].result = "err"

\* C28: a transport failure inside run_agent_turn puts an Error event on the
\* event bus for that turn, whether the turn was started from a UI, from the
\* messaging bridge or for a sub-agent.
C28_TransportFailureIsPublished ==
    \A t \in 1..MaxTurns :
        TransportFailed(t) =>
            \E i \in 1..Len(event_bus[t]) : event_bus[t][i].type = "Error"

\* In this step the agent of turn t ends.
AgentExits(t) == ag[t].pc /= "exited" /\ ag'[t].pc = "exited"

\* In this step the agent of turn t sends TurnComplete.
SendsTurnComplete(t) ==
    /\ Len(a2g'[t]) = Len(a2g[t]) + 1
    /\ Last(a2g'[t]).type = "TurnComplete"

\* C27: the agent process exits with code 0 exactly when it has sent
\* TurnComplete; a Cancel in the place of UserMessage, a protocol violation,
\* a model error and a closed pipe all give a code other than 0.
C27_ExitCodeZeroIffTurnComplete ==
    [][\A t \in 1..MaxTurns :
          /\ AgentExits(t) => (ag'[t].exit_code = 0 <=> SendsTurnComplete(t))
          /\ SendsTurnComplete(t) => AgentExits(t)]_vars

\* C26: on every exit path of run_agent_turn the IPC endpoint created for the
\* turn no longer exists once the function has returned.
C26_EndpointGoneAfterReturn ==
    \A t \in 1..MaxTurns :
        gw[t].pc = "done" => gw[t].session_id \notin sockets

\* The question of asker w is pending: its sender is registered and its
\* handler waits.
QuestionPending(w) == desk.pending = w /\ desk.askers[w].pc = "waiting"

\* In this step the router takes a message that has a text.
TakesMessage ==
    /\ Len(desk'.inbound) = Len(desk.inbound) + 1
    /\ Last(desk'.inbound) /= ""

\* In this step the handler of asker w returns.
Returns(w) == desk.askers[w].pc = "waiting" /\ desk'.askers[w].pc = "returned"

\* C25: while a blocking AskOrchestrator question is pending on a bound
\* channel, the next inbound message is handed to its waiter, which returns
\* it as the OrchestratorAnswer, and starts no agent turn; a waiter to which
\* no message came within the 600 s returns the canned timeout answer.
C25_ReplyAnswersThePendingQuestion ==
    [][\A w \in Askers :
          /\ (QuestionPending(w) /\ TakesMessage) =>
                /\ desk'.rx[w] = Last(desk'.inbound)
                /\ desk'.started = desk.started
                /\ desk'.pending = 0
          /\ Returns(w) =>
                desk'.askers[w].answer =
                    IF desk.rx[w] \in Texts THEN desk.rx[w] ELSE TimeoutAnswer]_vars

\* One asker has returned the human's reply, the other the timeout answer,
\* and no turn was started.
C25_Witness ==
    /\ \E w \in Askers :
          /\ desk.askers[w].pc = "returned"
          /\ desk.askers[w].answer = "yes"
    /\ \E w \in Askers :
          /\ desk.askers[w].pc = "returned"
          /\ desk.askers[w].answer = TimeoutAnswer
    /\ desk.started = <<>>
    /\ Len(desk.inbound) = 2

\* C37: with two blocking AskOrchestrator questions outstanding, each waiter
\* stays registered until a human reply reaches it or its own 600 s elapse:
\* a handler that still waits either has its sender in pending_question or
\* has the reply in its channel; registering another question neither
\* cancels nor answers it.
C37_WaitersStayRegistered ==
    \A w \in Askers :
        desk.askers[w].pc = "waiting" =>
            \/ desk.pending = w
            \/ desk.rx[w] \in Texts \ {""}

\* C38: once a blocking AskOrchestrator has returned, timed out or not, its
\* sender is no longer registered in pending_question, so that the next
\* inbound message starts a turn.
C38_NoWaiterLeftAfterTimeout ==
    \A w \in Askers : desk.askers[w].pc = "returned" => desk.pending /= w

\* C39: whenever list or run_foreground (through get_output) reports
\* is_running = false for a process that exited with a status code, the
\* exit_code of the same answer is that code.
C39_ExitCodeComesWithNotRunning ==
    /\ \A e \in pm.listing :
          (~e.is_running /\ pm.child[e.session_id] = "exited") =>
              e.exit_code = "code"
    /\ (pm.fg.result = "output" /\ pm.child[ForegroundSid] = "exited") =>
           pm.fg.code = "code"

\* The agent process of turn t ended before it connected, while the task of
\* the turn waits for the connection.
ExitedBeforeConnect(t) ==
    /\ gw[t].pc = "accept"
    /\ ag[t].pc = "exited"
    /\ ends[t].agent = "none"

\* Every call of run_agent_turn returns or is left waiting for an agent that
\* ended before it connected.
TurnReturnsUnlessAgentNeverConnects ==
    \A t \in 1..MaxTurns :
        (gw[t].pc = "task") ~> (gw[t].pc = "done" \/ ExitedBeforeConnect(t))

\* C35: every call of run_agent_turn eventually returns, even if the agent
\* process exits or crashes before it connects to the endpoint.
C35_TurnEventuallyReturns ==
    \A t \in 1..MaxTurns : (gw[t].pc = "task") ~> (gw[t].pc = "done")

\* C36: GatewayBridge.request always eventually returns: when the pipe
\* closes, or a message other than the matching ProcessResponse arrives,
\* while a request is outstanding, the waiting tool gets a result and the
\* agent's turn terminates.
C36_BridgeRequestReturns ==
    \A t \in 1..MaxTurns :
        (lp[t].pc = "blocked") ~> (lp[t].pc /= "blocked" /\ ag[t].pc = "exited")

\* C40: each agent process connects to the endpoint of the turn that spawned
\* it; overlapping turns, two turns of one session included, never share,
\* replace or remove each other's endpoint.
C40_EndpointsAreApart ==
    /\ \A t \in 1..MaxTurns : ep.agent[t].at \in {0, t}
    /\ \A t \in 1..MaxTurns : ep.turn[t].accepted \in {0, t}
    /\ \A t \in 1..MaxTurns :
          ep.listener[t] = "listening" => ep.path[ep.turn[t].session_id] = t

\* C31: messages are append-only per session: what get_history returns for a
\* session later has what it returned earlier as a prefix, and an append to
\* one session leaves the history of every other session as it was.
C31_HistoryOnlyGrows ==
    [][/\ \A sid \in 1..MaxSessions : IsPrefix(get_history(sid), get_history(sid)')
       /\ \A sid \in 1..MaxSessions :
             (/\ Len(messages') = Len(messages) + 1
              /\ Last(messages').session_id /= sid)
                 => get_history(sid)' = get_history(sid)]_vars

\* C32: the reflection pass runs only for Main-session turns that ended
\* with TurnComplete, with the user message and the assistant reply of that
\* same turn; it never runs after a turn that ended with Error.
C32_ReflectionFollowsTurnComplete ==
    \A t \in 1..MaxTurns :
        gw[t].reflection.ran =>
            /\ gw[t].origin = "ui"
            /\ HasEvent(event_bus[t], "TurnComplete")
            /\ ~HasEvent(event_bus[t], "Error")
            /\ gw[t].reflection.user_message = t
            /\ gw[t].reflection.assistant_response.turn = t

\* The tools that manage sessions: those of the orchestrator.
SessionManagementTools == {"session_spawn", "session_status", "session_answer"}

\* C34: the registry of a main session holds only session-management tools,
\* the registry of any other session holds none of them, and a tool named in
\* disabled_tools is neither listed by definitions() nor executable: execute
\* answers it with the unknown-tool error result.
C34_RegistryBySessionKind ==
    reg.built =>
        /\ reg.session_kind = "main" => reg.definitions \subseteq SessionManagementTools
        /\ reg.session_kind /= "main" => reg.definitions \cap SessionManagementTools = {}
        /\ reg.definitions \cap reg.disabled = {}
        /\ (reg.executed /\ reg.call.name \in reg.disabled) =>
               reg.result = [tool_call_id |-> reg.call.id,
                             content |-> Content(<<"Unknown tool: ", reg.call.name>>, ""),
                             is_error |-> TRUE]

\* Line x is in the MEMORY file.
InFile(x) == \E i \in 1..Len(mem.file) : mem.file[i] = x

\* C33: the append of a reflection pass is atomic with respect to other
\* writers: when passes, or a pass and another write of the file, overlap,
\* every snippet that was appended and every saved edit is in the file.
C33_NoMemoryUpdateIsLost ==
    /\ \A p \in Passes : mem.pass[p].appended => InFile(Snippet(p))
    /\ mem.editor.pc = "saved" => InFile(EditedLine)

====
